---- MODULE Spec2Model ----
(***************************************************************************)
(* Server side of the fastrpc runtime: the MessagePack codec and the       *)
(* length-prefixed framing (rpc/serializer.ts, rpc/framedMessage.ts), the  *)
(* pattern registry (rpc/rpcHandler.ts) and the per-connection dispatch    *)
(* loop of TcpTransport (rpc/tcpTransport.ts).                             *)
(*                                                                         *)
(* Bytes are integers 0..255 and byte arrays are sequences of bytes.       *)
(* Strings are the sequences of their character codes, so that encoding a  *)
(* string is an operation on its bytes.  A MessagePack value (ValueType)   *)
(* is a record [t, n, s, m]: t is the JavaScript type of the value, n its  *)
(* number, s its characters and m its key/value pairs in insertion order.  *)
(***************************************************************************)
EXTENDS Integers, Sequences, FiniteSets, TLC

\* ------------------------------------------------------------------------
\* Bounds of the model
\* ------------------------------------------------------------------------

\* connections the listener can accept
NConns ==
  2

\* chunks the peers deliver in total, over all connections
MaxChunks ==
  2

\* ------------------------------------------------------------------------
\* Program constants
\* ------------------------------------------------------------------------

MESSAGE_PATTERN_REQUEST ==
  0

MESSAGE_PATTERN_EVENT ==
  1

DEFAULT_TIMEOUT_MS ==
  5000

MAX_MESSAGE_SIZE ==
  10 * 1024 * 1024

\* ------------------------------------------------------------------------
\* Values
\* ------------------------------------------------------------------------

Undefined ==
  [t |-> "undefined", n |-> 0, s |-> <<>>, m |-> <<>>]

Null ==
  [t |-> "null", n |-> 0, s |-> <<>>, m |-> <<>>]

Num(k) ==
  [t |-> "number", n |-> k, s |-> <<>>, m |-> <<>>]

Str(chars) ==
  [t |-> "string", n |-> 0, s |-> chars, m |-> <<>>]

Obj(pairs) ==
  [t |-> "object", n |-> 0, s |-> <<>>, m |-> pairs]

\* character codes of the strings the runtime itself uses
S_id ==
  <<105, 100>>

S_pattern ==
  <<112, 97, 116, 116, 101, 114, 110>>

S_data ==
  <<100, 97, 116, 97>>

S_patternType ==
  <<112, 97, 116, 116, 101, 114, 110, 84, 121, 112, 101>>

S_timeoutMs ==
  <<116, 105, 109, 101, 111, 117, 116, 77, 115>>

S_error ==
  <<101, 114, 114, 111, 114>>

S_REPLY ==
  <<82, 69, 80, 76, 89>>

S_HandlerFailed ==
  <<72, 97, 110, 100, 108, 101, 114, 32, 102, 97, 105, 108, 101, 100>>

S_TimeoutAfter ==
  <<84, 105, 109, 101, 111, 117, 116, 32, 97, 102, 116, 101, 114, 32>>

S_ms ==
  <<109, 115>>

\* decimal digits of a non-negative integer, as a template literal prints it
RECURSIVE DecimalString(_)
DecimalString(k) ==
  IF k < 10 THEN <<48 + k>>
  ELSE DecimalString(k \div 10) \o <<48 + (k % 10)>>

\* msg.key of a JavaScript value: the last pair with that key, undefined when
\* the value is not an object or has no such key
RECURSIVE LookupPairs(_, _)
LookupPairs(pairs, key) ==
  IF pairs = <<>> THEN Undefined
  ELSE LET last == pairs[Len(pairs)]
       IN  IF last[1] = key THEN last[2]
           ELSE LookupPairs(SubSeq(pairs, 1, Len(pairs) - 1), key)

Field(v, key) ==
  IF v.t = "object" THEN LookupPairs(v.m, key) ELSE Undefined

HasField(v, key) ==
  v.t = "object" /\ \E i \in 1..Len(v.m) : v.m[i][1] = key

\* ------------------------------------------------------------------------
\* Codec: the MessagePack formats the messages of the model need
\* (nil, positive fixint, uint 8, uint 16, fixstr, fixmap)
\* ------------------------------------------------------------------------

EncodeNumber(k) ==
  IF k < 128 THEN <<k>>
  ELSE IF k < 256 THEN <<204, k>>
  ELSE <<205, k \div 256, k % 256>>

EncodeString(chars) ==
  <<160 + Len(chars)>> \o chars

RECURSIVE Encodable(_)
Encodable(v) ==
  CASE v.t = "undefined" -> FALSE
    [] v.t = "object" -> \A i \in 1..Len(v.m) : Encodable(v.m[i][2])
    [] OTHER -> TRUE

RECURSIVE encode(_)
RECURSIVE EncodePairs(_)
EncodePairs(pairs) ==
  IF pairs = <<>> THEN <<>>
  ELSE EncodeString(Head(pairs)[1]) \o encode(Head(pairs)[2])
         \o EncodePairs(Tail(pairs))

encode(v) ==
  CASE v.t = "null" -> <<192>>
    [] v.t = "number" -> EncodeNumber(v.n)
    [] v.t = "string" -> EncodeString(v.s)
    [] v.t = "object" -> <<128 + Len(v.m)>> \o EncodePairs(v.m)

\* result of decoding a prefix of a byte array
Parsed(v, rest) ==
  [ok |-> TRUE, v |-> v, rest |-> rest]

ParseError ==
  [ok |-> FALSE, v |-> Undefined, rest |-> <<>>]

Drop(b, k) ==
  SubSeq(b, k + 1, Len(b))

RECURSIVE decodeSlice(_)
RECURSIVE DecodePairs(_, _, _)
DecodePairs(b, k, acc) ==
  IF k = 0 THEN Parsed(Obj(acc), b)
  ELSE LET key == decodeSlice(b)
       IN  IF ~key.ok \/ key.v.t # "string" THEN ParseError
           ELSE LET val == decodeSlice(key.rest)
                IN  IF ~val.ok THEN ParseError
                    ELSE DecodePairs(val.rest, k - 1,
                                     Append(acc, <<key.v.s, val.v>>))

decodeSlice(b) ==
  IF b = <<>> THEN ParseError
  ELSE LET h == Head(b)
           r == Tail(b)
       IN  CASE h < 128 -> Parsed(Num(h), r)
             [] h \in 128..143 -> DecodePairs(r, h - 128, <<>>)
             [] h \in 160..191 ->
                  IF Len(r) < h - 160 THEN ParseError
                  ELSE Parsed(Str(SubSeq(r, 1, h - 160)), Drop(r, h - 160))
             [] h = 192 -> Parsed(Null, r)
             [] h = 204 ->
                  IF Len(r) < 1 THEN ParseError
                  ELSE Parsed(Num(r[1]), Drop(r, 1))
             [] h = 205 ->
                  IF Len(r) < 2 THEN ParseError
                  ELSE Parsed(Num(r[1] * 256 + r[2]), Drop(r, 2))
             [] OTHER -> ParseError

\* decode throws unless the whole array is consumed
decode(b) ==
  LET p == decodeSlice(b)
  IN  IF p.ok /\ p.rest = <<>> THEN p ELSE ParseError

\* ------------------------------------------------------------------------
\* Framing
\* ------------------------------------------------------------------------

\* DataView.setUint32(0, k, false)
Uint32BigEndian(k) ==
  << (k \div 16777216) % 256, (k \div 65536) % 256,
     (k \div 256) % 256, k % 256 >>

\* DataView.getUint32(0)
getUint32(b) ==
  b[1] * 16777216 + b[2] * 65536 + b[3] * 256 + b[4]

\* MessagePackSerializer.frame
frame(payload) ==
  Uint32BigEndian(Len(payload)) \o payload

\* MessagePackSerializer.serialize
serialize(message) ==
  frame(encode(message))

\* MessagePackSerializer.deserialize
deserialize(buffer) ==
  decode(buffer)

createFrameMessage(payload) ==
  Uint32BigEndian(Len(payload)) \o payload

\* what FrameWriter.write hands to the connection's writer
FrameWriter_write(payload) ==
  createFrameMessage(payload)

\* ------------------------------------------------------------------------
\* Registry (RpcHandler) and the handlers and middleware registered in it
\* ------------------------------------------------------------------------

P_add ==
  <<97, 100, 100>>

P_evt ==
  <<101, 118, 116>>

P_nop ==
  <<110, 111, 112>>

P_health ==
  <<95, 95, 104, 101, 97, 108, 116, 104, 95, 95>>

S_nope ==
  <<110, 111, 112, 101>>

S_denied ==
  <<100, 101, 110, 105, 101, 100>>

S_status ==
  <<115, 116, 97, 116, 117, 115>>

S_ok ==
  <<111, 107>>

S_timestamp ==
  <<116, 105, 109, 101, 115, 116, 97, 109, 112>>

S_uptime ==
  <<117, 112, 116, 105, 109, 101>>

Returned(v) ==
  [kind |-> "return", v |-> v]

Thrown(message) ==
  [kind |-> "throw", v |-> Str(message)]

TimedOut(ms) ==
  [kind |-> "timeout", v |-> Num(ms)]

NoOutcome ==
  [kind |-> "none", v |-> Undefined]

\* what an invocation of a registered handler can do: "add" and "onEvt" stand
\* for user handlers (any result, any error, also an Error with an empty
\* message), "health" is the handler registerHealthCheck installs
HandlerOutcomes(h) ==
  IF h = "health"
  THEN { Returned(Obj(<< <<S_status, Str(S_ok)>>, <<S_timestamp, Num(t)>>,
                         <<S_uptime, Num(t)>> >>)) : t \in {1} }
  ELSE { Returned(Undefined), Returned(Num(8)), Thrown(S_nope), Thrown(<<>>) }

\* a handler that returns a promise can still be pending when the timer fires
HandlerAsync(h) ==
  h # "health"

S_cached ==
  <<99, 97, 99, 104, 101, 100>>

\* what a middleware does when it is called: LoggingMiddleware always calls
\* next() and passes its result or error on; "guard" stands for a user
\* middleware that either calls next() or throws, "cache" for one that
\* returns a value of its own without calling next()
MiddlewareMoves(mw) ==
  IF mw = "guard" THEN { [kind |-> "next", v |-> Undefined], Thrown(S_denied) }
  ELSE IF mw = "cache" THEN { Returned(Str(S_cached)) }
  ELSE { [kind |-> "next", v |-> Undefined] }

VARIABLES
  requestHandlers,   \* RpcHandler.requestHandlers: pattern -> handler
  eventHandlers,     \* RpcHandler.eventHandlers: pattern -> handler
  globalMiddleware,  \* RpcHandler.globalMiddleware
  handlerMiddleware, \* RpcHandler.handlerMiddleware: pattern -> middleware list
  activeConnections, \* TcpTransport.activeConnections
  pc,                \* where the session of each connection is suspended
  buffer,            \* FrameReader.buffer of each connection
  aborted,           \* state.abortController.signal.aborted
  cur,               \* the message the loop of a session is handling
  events,            \* detached event dispatches not settled yet
  zombies,           \* request handlers still running after their timeout
  logged,            \* events whose error handleEvent wrote to console.error
  ndecoded,          \* messages decoded on each connection so far
  nrequests,         \* requests dispatched to a handler so far
  nsent,             \* frames written to each connection so far
  chunks,            \* chunks delivered by the peers so far
  connError,         \* the error handleConnectionError logged for a session
  reader,            \* a frame reader on a stream of its own
  codec,             \* a MessagePackSerializer applied to a message
  chain,             \* one run of runMiddlewareChain, call by call
  lastCall,          \* the last call made on the RpcHandler registry
  controllers,       \* a decorated controller class and its exports
  transport,         \* a TcpTransport listening and shutting down
  peer               \* what the client of each connection did to its stream

registry ==
  <<requestHandlers, eventHandlers, globalMiddleware, handlerMiddleware>>

counters ==
  <<ndecoded, nrequests>>

\* the state of the components exercised apart from a server
aside ==
  <<controllers, transport, peer>>

bench ==
  <<reader, codec, chain, lastCall, controllers, transport, peer>>

\* the state of the server's sessions
server ==
  <<activeConnections, pc, buffer, aborted, cur, events, zombies, logged,
    ndecoded, nrequests, nsent, chunks, connError>>

vars ==
  <<requestHandlers, eventHandlers, globalMiddleware, handlerMiddleware,
    activeConnections, pc, buffer, aborted, cur, events, zombies, logged,
    ndecoded, nrequests, nsent, chunks, connError, reader, codec, chain,
    lastCall, controllers, transport, peer>>

Conns ==
  1..NConns

\* getHandler with one namespace for both pattern types
getHandler_AnyNamespace(pattern, type) ==
  IF pattern.t = "string" /\ pattern.s \in DOMAIN requestHandlers
  THEN requestHandlers[pattern.s]
  ELSE IF pattern.t = "string" /\ pattern.s \in DOMAIN eventHandlers
       THEN eventHandlers[pattern.s] ELSE "none"

\* RpcHandler.getHandler
getHandler(pattern, type) ==
  IF type = Num(MESSAGE_PATTERN_REQUEST)
  THEN IF pattern.t = "string" /\ pattern.s \in DOMAIN requestHandlers
       THEN requestHandlers[pattern.s] ELSE "none"
  ELSE IF pattern.t = "string" /\ pattern.s \in DOMAIN eventHandlers
       THEN eventHandlers[pattern.s] ELSE "none"

\* getMiddleware with the list of the pattern put first
getMiddleware_PatternFirst(pattern) ==
  LET handlerMW == IF pattern.t = "string" /\ pattern.s \in DOMAIN handlerMiddleware
                   THEN handlerMiddleware[pattern.s] ELSE <<>>
  IN  handlerMW \o globalMiddleware

\* RpcHandler.getMiddleware
getMiddleware(pattern) ==
  LET handlerMW == IF pattern.t = "string" /\ pattern.s \in DOMAIN handlerMiddleware
                   THEN handlerMiddleware[pattern.s] ELSE <<>>
  IN  globalMiddleware \o handlerMW

\* runMiddlewareChain up to its first suspension: the chain either reaches
\* the handler or a middleware settles it without calling next()
RECURSIVE runMiddleware(_, _)
runMiddleware(middleware, index) ==
  IF index > Len(middleware) THEN { [kind |-> "handler", v |-> Undefined] }
  ELSE UNION { IF mv.kind = "next" THEN runMiddleware(middleware, index + 1)
               ELSE {mv} : mv \in MiddlewareMoves(middleware[index]) }

\* the timeout capped at the default: min(timeoutMs, DEFAULT_TIMEOUT_MS)
TimeoutOf_Capped(timeoutMs) ==
  IF timeoutMs.t \in {"undefined", "null"} \/ timeoutMs.n > DEFAULT_TIMEOUT_MS
  THEN DEFAULT_TIMEOUT_MS
  ELSE timeoutMs.n

\* timeoutMs ?? this.DEFAULT_TIMEOUT_MS
TimeoutOf(timeoutMs) ==
  IF timeoutMs.t \in {"undefined", "null"} THEN DEFAULT_TIMEOUT_MS
  ELSE timeoutMs.n

TimeoutMessage(timeout) ==
  S_TimeoutAfter \o DecimalString(timeout) \o S_ms

\* (err as Error).message || "Handler failed"
ErrorMessage(message) ==
  IF message = <<>> THEN S_HandlerFailed ELSE message

\* the error message sent as the reply data itself
ErrorReply_Bare(message) ==
  Str(ErrorMessage(message))

\* the catch block of handleRequest
ErrorReply(message) ==
  Obj(<< <<S_error, Str(ErrorMessage(message))>> >>)

\* a reply that always carries an id field
ReplyMessage_NullId(id, replyData) ==
  Obj(<< <<S_id, IF id = Undefined THEN Null ELSE id>>,
         <<S_pattern, Str(S_REPLY)>>,
         <<S_data, IF replyData = Undefined \/ replyData = Null
                   THEN Null ELSE replyData>>,
         <<S_patternType, Num(MESSAGE_PATTERN_REQUEST)>> >>)

\* the reply object sendReply builds
ReplyMessage(id, replyData) ==
  Obj( (IF id # Undefined THEN << <<S_id, id>> >> ELSE <<>>)
       \o << <<S_pattern, Str(S_REPLY)>>,
             <<S_data, IF replyData = Undefined \/ replyData = Null
                       THEN Null ELSE replyData>>,
             <<S_patternType, Num(MESSAGE_PATTERN_REQUEST)>> >> )

\* ------------------------------------------------------------------------
\* What the peers send: frames built by the client's serializer.serialize,
\* and a header that announces a payload larger than MAX_MESSAGE_SIZE
\* ------------------------------------------------------------------------

RequestAdd ==
  Obj(<< <<S_id, Str(<<114, 49>>)>>, <<S_pattern, Str(P_add)>>,
         <<S_data, Num(5)>>, <<S_patternType, Num(MESSAGE_PATTERN_REQUEST)>> >>)

RequestAddNoId ==
  Obj(<< <<S_pattern, Str(P_add)>>, <<S_data, Null>>,
         <<S_patternType, Num(MESSAGE_PATTERN_REQUEST)>>,
         <<S_timeoutMs, Num(6000)>> >>)

EventEvt ==
  Obj(<< <<S_pattern, Str(P_evt)>>, <<S_data, Num(1)>>,
         <<S_patternType, Num(MESSAGE_PATTERN_EVENT)>> >>)

RequestNop ==
  Obj(<< <<S_id, Str(<<117>>)>>, <<S_pattern, Str(P_nop)>>,
         <<S_data, Null>>, <<S_patternType, Num(MESSAGE_PATTERN_REQUEST)>> >>)

EventAdd ==
  Obj(<< <<S_pattern, Str(P_add)>>, <<S_data, Null>>,
         <<S_patternType, Num(MESSAGE_PATTERN_EVENT)>> >>)

\* a message whose patternType is neither REQUEST nor EVENT
EvtOfType2 ==
  Obj(<< <<S_pattern, Str(P_evt)>>, <<S_data, Num(1)>>,
         <<S_patternType, Num(2)>> >>)

ClientMessages ==
  {RequestAdd, RequestAddNoId, EventEvt, RequestNop, EventAdd, EvtOfType2}

\* header of a frame of 16 MiB
OversizeHeader ==
  <<1, 0, 0, 0>>

\* a frame whose payload is no MessagePack value: the header of a string of
\* 5 bytes with the string missing
MalformedFrame ==
  frame(<<165>>)

Chunks ==
  {serialize(m) : m \in ClientMessages} \cup {OversizeHeader, MalformedFrame}

\* ------------------------------------------------------------------------
\* Sessions
\* ------------------------------------------------------------------------

\* no message: the loop is between two iterations
NoMessage ==
  [ord |-> 0, index |-> 0, msg |-> Undefined, disp |-> "none",
   id |-> Undefined, timeout |-> 0, handler |-> "none", running |-> FALSE,
   outcome |-> NoOutcome, reply |-> Undefined, bytes |-> <<>>,
   written |-> FALSE]

\* a frame reader that has not been constructed
NoReader ==
  [kind |-> "none", buffer |-> <<>>, stream |-> <<>>, sent |-> <<>>,
   lost |-> 0, got |-> <<>>, split |-> FALSE, status |-> "none"]

\* a serializer that has not been given a message
NoCodec ==
  [msg |-> Undefined, bytes |-> <<>>, out |-> ParseError, status |-> "none"]

\* no run of the middleware chain: its arguments (the signal as its aborted
\* flag), the number of middleware that have called next(), what each
\* middleware called did, the calls observed, and the result; the span of
\* the dispatch, the calls made on the tracer and on the span, and what
\* settled the race of executeWithTracing
NoChain ==
  [msg |-> Undefined, data |-> Undefined, handler |-> "none",
   middleware |-> <<>>, aborted |-> FALSE, index |-> 0, moved |-> <<>>,
   trace |-> <<>>, result |-> NoOutcome, status |-> "none",
   span |-> [traceId |-> <<>>, spanId |-> <<>>], spanLog |-> <<>>,
   race |-> NoOutcome]

\* new RpcHandler(): the four fields of a registry
NoRegistry ==
  [requestHandlers |-> << >>, eventHandlers |-> << >>,
   globalMiddleware |-> <<>>, handlerMiddleware |-> << >>]

\* no call on the registry yet: name and arguments of the last call, the
\* per-pattern list it found, the calls made so far, all the middleware
\* given to use() so far, whether a TcpTransport has been constructed on the
\* registry, RpcHandler.currentPattern (empty: undefined), the registry as
\* the call found it, and the registry handed to merge as the call found
\* it (other) and as the call left it (left)
NoCall ==
  [name |-> "none", pattern |-> <<>>, handler |-> "none", middleware |-> <<>>,
   before |-> <<>>, calls |-> 0, used |-> <<>>, filters |-> << >>,
   constructed |-> FALSE, currentPattern |-> <<>>, was |-> NoRegistry,
   other |-> NoRegistry, left |-> NoRegistry]

\* no controller class declared: the registry objects (handlerRegistry
\* holds the one of the class), the instances of the class, the registries
\* getControllerHandler returned, and what was declared and done so far
NoControllers ==
  [status |-> "none", objects |-> <<>>, handlerRegistry |-> 0,
   instanceRegistry |-> 0, currentPattern |-> <<>>, instances |-> <<>>,
   exports |-> <<>>, declared |-> << >>, decorators |-> 0, steps |-> 0,
   last |-> [op |-> "none", export |-> 0, thrown |-> FALSE]]

\* no transport constructed. A transport has its fields isShuttingDown,
\* abortController (as the aborted flag of its signal) and activeConnections,
\* the listener, whether the loop of listen() is running, the force-close
\* timer of shutdown, the milliseconds since shutdown was called, and for
\* each connection its socket, the position of its session, the aborted
\* flag of the token of its session, and what became of a request that was
\* in flight when shutdown was called; signals counts the shutdown signals
\* delivered and runs the calls of shutdown
NoTransport ==
  [status |-> "none", isShuttingDown |-> FALSE, aborted |-> FALSE,
   activeConnections |-> {}, listener |-> "none", accepting |-> FALSE,
   shutdownTimer |-> "none", elapsed |-> 0, conn |-> <<>>, session |-> <<>>,
   token |-> <<>>, inflight |-> <<>>, signals |-> 0, runs |-> 0,
   last |-> "none"]

\* no client has closed its stream: closed tells that the client has closed
\* it, during the request (by its position among the messages decoded) that
\* was being dispatched when it did, 0 when none was
NoPeers ==
  [c \in Conns |-> [closed |-> FALSE, during |-> 0]]

\* the registry the server is constructed on
Registered ==
  /\ requestHandlers = (P_add :> "add") @@ (P_health :> "health")
  /\ eventHandlers = (P_evt :> "onEvt")
  /\ globalMiddleware = <<"LoggingMiddleware">>
  /\ handlerMiddleware = (P_add :> <<"guard">>) @@ (P_evt :> <<"guard">>)

\* a server that has accepted no connection yet
NoSessions ==
  /\ activeConnections = {}
  /\ pc = [c \in Conns |-> "idle"]
  /\ buffer = [c \in Conns |-> <<>>]
  /\ aborted = [c \in Conns |-> FALSE]
  /\ cur = [c \in Conns |-> NoMessage]
  /\ events = [c \in Conns |-> {}]
  /\ zombies = [c \in Conns |-> {}]
  /\ logged = [c \in Conns |-> {}]
  /\ ndecoded = [c \in Conns |-> 0]
  /\ nrequests = [c \in Conns |-> 0]
  /\ nsent = [c \in Conns |-> 0]
  /\ chunks = 0
  /\ connError = [c \in Conns |-> "none"]

Init ==
  /\ peer = NoPeers
  /\ Registered
  /\ NoSessions
  /\ reader = NoReader
  /\ codec = NoCodec
  /\ chain = NoChain
  /\ lastCall = NoCall
  /\ controllers = NoControllers
  /\ transport = NoTransport

\* FrameReader.next on a buffer: a payload and the rest of the buffer, or
\* the need to read more from the stream
FrameReader_next(buf) ==
  IF Len(buf) < 4
  THEN [kind |-> "read", msg |-> <<>>, buffer |-> buf]
  ELSE LET length == getUint32(buf)
       IN  IF Len(buf) >= 4 + length
           THEN [kind |-> "msg", msg |-> SubSeq(buf, 5, 4 + length),
                 buffer |-> Drop(buf, 4 + length)]
           ELSE [kind |-> "read", msg |-> <<>>, buffer |-> buf]

\* the finally of handleConnection and of the promise listen() holds: the
\* session token fires (settling the pending detached dispatches), the
\* connection is closed and leaves activeConnections
cleanupConnection(c) ==
  /\ aborted' = [aborted EXCEPT ![c] = TRUE]
  /\ pc' = [pc EXCEPT ![c] = "closed"]
  /\ activeConnections' = activeConnections \ {c}
  /\ events' = [events EXCEPT ![c] = {}]
  /\ cur' = [cur EXCEPT ![c] = NoMessage]

\* the catch of handleConnection: the error that left processMessages is
\* logged unless the session token had fired before
handleConnectionError(c, error) ==
  connError' = [connError EXCEPT ![c] = IF aborted[c] THEN @ ELSE error]

\* the message handleMessage was called with, and the way it went
Handling(c, msg, disp, handler) ==
  [NoMessage EXCEPT !.ord = ndecoded[c] + 1, !.msg = msg, !.disp = disp,
                    !.handler = handler]

Count(c, disp) ==
  /\ ndecoded' = [ndecoded EXCEPT ![c] = @ + 1]
  /\ nrequests' = [nrequests EXCEPT ![c] = IF disp = "request" THEN @ + 1 ELSE @]

\* handleRequest up to the await of executeWithTracing
handleRequest(c, msg, handler, middleware) ==
  \E e \in runMiddleware(middleware, 1) :
    /\ cur' = [cur EXCEPT ![c] =
                 [Handling(c, msg, "request", handler) EXCEPT
                    !.index = nrequests[c] + 1,
                    !.id = Field(msg, S_id),
                    !.timeout = TimeoutOf(Field(msg, S_timeoutMs)),
                    !.running = (e.kind = "handler"),
                    !.outcome = IF e.kind = "handler" THEN NoOutcome ELSE e]]
    /\ pc' = [pc EXCEPT ![c] = "dispatch"]
    /\ Count(c, "request")
    /\ UNCHANGED <<aborted, activeConnections, events, logged, connError>>

\* a handleEvent that is awaited like handleRequest
handleEvent_Awaited(c, msg, handler, middleware) ==
  \E e \in runMiddleware(middleware, 1) :
    /\ cur' = [cur EXCEPT ![c] =
                 [Handling(c, msg, "event", handler) EXCEPT
                    !.running = (e.kind = "handler"),
                    !.outcome = IF e.kind = "handler" THEN NoOutcome ELSE e]]
    /\ pc' = [pc EXCEPT ![c] = "dispatch"]
    /\ Count(c, "event")
    /\ UNCHANGED <<aborted, activeConnections, events, logged, connError>>

\* handleEvent: the dispatch is started and not awaited; a middleware that
\* throws rejects it at once, and the catch logs the error
handleEvent(c, msg, handler, middleware) ==
  \E e \in runMiddleware(middleware, 1) :
    /\ events' = [events EXCEPT ![c] =
                    IF e.kind = "handler"
                    THEN @ \cup {[ord |-> ndecoded[c] + 1, handler |-> handler]}
                    ELSE @]
    /\ logged' = [logged EXCEPT ![c] =
                    IF e.kind = "throw" THEN @ \cup {ndecoded[c] + 1} ELSE @]
    /\ cur' = [cur EXCEPT ![c] = Handling(c, msg, "event", handler)]
    /\ pc' = [pc EXCEPT ![c] = "loop"]
    /\ Count(c, "event")
    /\ UNCHANGED <<aborted, activeConnections, connError>>

\* handleMessage up to its first suspension
handleMessage(c, msg) ==
  LET pattern == Field(msg, S_pattern)
      patternType == Field(msg, S_patternType)
      handler == getHandler(pattern, patternType)
  IN  IF msg.t \in {"null", "undefined"}
      THEN \* destructuring throws: the error leaves processMessages
           /\ handleConnectionError(c, "TypeError")
           /\ cleanupConnection(c)
           /\ UNCHANGED <<counters, logged>>
      ELSE IF handler = "none"
      THEN /\ pc' = [pc EXCEPT ![c] = "loop"]
           /\ cur' = [cur EXCEPT ![c] = Handling(c, msg, "dropped", "none")]
           /\ Count(c, "dropped")
           /\ UNCHANGED <<aborted, activeConnections, events, logged,
                          connError>>
      ELSE IF patternType = Num(MESSAGE_PATTERN_REQUEST)
      THEN handleRequest(c, msg, handler, getMiddleware(pattern))
      ELSE handleEvent(c, msg, handler, getMiddleware(pattern))

\* the body of the processMessages loop from the call of reader.next() on
\* buffer buf to the next suspension
processMessages(c, buf) ==
  LET r == FrameReader_next(buf)
  IN  /\ buffer' = [buffer EXCEPT ![c] = r.buffer]
      /\ IF r.kind = "read"
         THEN /\ pc' = [pc EXCEPT ![c] = "read"]
              /\ cur' = [cur EXCEPT ![c] = NoMessage]
              /\ UNCHANGED <<aborted, activeConnections, events, logged,
                             counters, connError>>
         ELSE LET d == deserialize(r.msg)
              IN  IF ~d.ok
                  THEN /\ handleConnectionError(c, "decode")
                       /\ cleanupConnection(c)
                       /\ UNCHANGED <<counters, logged>>
                  ELSE handleMessage(c, d.v)

\* listen(): a connection is accepted and its session runs to its first read
Accept(c) ==
  /\ pc[c] = "idle"
  /\ activeConnections' = activeConnections \cup {c}
  /\ pc' = [pc EXCEPT ![c] = "read"]
  /\ UNCHANGED <<registry, bench, connError, buffer, aborted, cur, events, zombies, logged,
                 counters, nsent, chunks>>

\* reader.read() resolves with a chunk
Deliver(c, chunk) ==
  /\ pc[c] = "read"
  /\ chunks < MaxChunks
  /\ chunks' = chunks + 1
  /\ processMessages(c, buffer[c] \o chunk)
  /\ UNCHANGED <<registry, bench, zombies, nsent>>

\* reader.read() resolves with done: next() returns null, the loop ends
PeerClose(c) ==
  /\ pc[c] = "read"
  /\ cleanupConnection(c)
  /\ UNCHANGED <<registry, bench, connError, buffer, zombies, logged, counters, nsent, chunks>>

\* a loop that goes on reading whatever became of the session token
Loop_Unchecked(c) ==
  /\ pc[c] = "loop"
  /\ processMessages(c, buffer[c])
  /\ UNCHANGED <<registry, bench, zombies, nsent, chunks>>

\* the while condition of processMessages after handleMessage has returned
Loop(c) ==
  /\ pc[c] = "loop"
  /\ IF aborted[c]
     THEN cleanupConnection(c)
            /\ UNCHANGED <<buffer, counters, logged, connError>>
     ELSE processMessages(c, buffer[c])
  /\ UNCHANGED <<registry, bench, zombies, nsent, chunks>>

\* a dispatch abandoned by its timeout is not answered
Suppressed_OnTimeout(c, outcome) ==
  aborted[c] \/ outcome.kind = "timeout"

\* handleRequest sends no reply once the session token has fired
Suppressed(c, outcome) ==
  aborted[c]

\* the data of the reply: the result, or the catch block's error object
ReplyData(outcome) ==
  IF outcome.kind = "return" THEN outcome.v
  ELSE IF outcome.kind = "timeout"
  THEN ErrorReply(TimeoutMessage(outcome.v.n))
  ELSE ErrorReply(outcome.v.s)

\* handleRequest from the settlement of executeWithTracing to the await of
\* writer.write in sendReply
Settle(c, outcome) ==
  LET reply == ReplyMessage(cur[c].id, ReplyData(outcome))
  IN  IF Suppressed(c, outcome)
      THEN /\ pc' = [pc EXCEPT ![c] = "loop"]
           /\ cur' = [cur EXCEPT ![c].running = FALSE, ![c].outcome = outcome]
           /\ UNCHANGED <<aborted, activeConnections, events, connError>>
      ELSE IF ~Encodable(reply)
      THEN handleConnectionError(c, "encode") /\ cleanupConnection(c)
      ELSE /\ pc' = [pc EXCEPT ![c] = "write"]
           /\ cur' = [cur EXCEPT ![c].running = FALSE,
                                 ![c].outcome = outcome,
                                 ![c].reply = reply,
                                 ![c].bytes = FrameWriter_write(serialize(reply))]
           /\ UNCHANGED <<aborted, activeConnections, events, connError>>

\* the handler returns or throws before the timer fires
HandlerSettles(c, outcome) ==
  /\ pc[c] = "dispatch"
  /\ cur[c].running
  /\ outcome \in HandlerOutcomes(cur[c].handler)
  /\ Settle(c, outcome)
  /\ UNCHANGED <<registry, bench, buffer, zombies, logged, counters, nsent, chunks>>

\* a middleware settled the chain without calling next()
MiddlewareSettles(c) ==
  /\ pc[c] = "dispatch"
  /\ ~cur[c].running
  /\ Settle(c, cur[c].outcome)
  /\ UNCHANGED <<registry, bench, buffer, zombies, logged, counters, nsent, chunks>>

\* the timer of executeWithTracing fires first: the race rejects, the
\* handler goes on running
TimeoutExpires(c) ==
  /\ pc[c] = "dispatch"
  /\ cur[c].running
  /\ HandlerAsync(cur[c].handler)
  /\ zombies' = [zombies EXCEPT ![c] = @ \cup {cur[c].ord}]
  /\ Settle(c, TimedOut(cur[c].timeout))
  /\ UNCHANGED <<registry, bench, buffer, logged, counters, nsent, chunks>>

\* writer.write resolves: the frame is on the connection
WriteResolves(c) ==
  /\ pc[c] = "write"
  /\ nsent' = [nsent EXCEPT ![c] = @ + 1]
  /\ cur' = [cur EXCEPT ![c].written = TRUE]
  /\ pc' = [pc EXCEPT ![c] = "loop"]
  /\ UNCHANGED <<registry, bench, connError, activeConnections, buffer, aborted, events, zombies,
                 logged, counters, chunks>>

\* a sendReply that swallows BrokenPipe and leaves the session token alone
WriteBrokenPipe_Silent(c) ==
  /\ pc[c] = "write"
  /\ pc' = [pc EXCEPT ![c] = "loop"]
  /\ UNCHANGED <<registry, bench, connError, activeConnections, buffer, aborted,
                 cur, events, zombies, logged, counters, nsent, chunks>>

\* writer.write rejects with BrokenPipe: sendReply fires the session token
WriteBrokenPipe(c) ==
  /\ pc[c] = "write"
  /\ aborted' = [aborted EXCEPT ![c] = TRUE]
  /\ events' = [events EXCEPT ![c] = {}]
  /\ pc' = [pc EXCEPT ![c] = "loop"]
  /\ UNCHANGED <<registry, bench, connError, activeConnections, buffer, cur, zombies, logged,
                 counters, nsent, chunks>>

\* writer.write rejects with another error: it leaves processMessages
WriteFails(c) ==
  /\ pc[c] = "write"
  /\ handleConnectionError(c, "write")
  /\ cleanupConnection(c)
  /\ UNCHANGED <<registry, bench, buffer, zombies, logged, counters, nsent, chunks>>

\* what can settle a detached event dispatch: its handler, or its timer
EventOutcomes(ev) ==
  HandlerOutcomes(ev.handler)
    \cup (IF HandlerAsync(ev.handler) THEN {TimedOut(DEFAULT_TIMEOUT_MS)}
          ELSE {})

\* an event handler's error ends the session
EventSettles_Fatal(c, ev, outcome) ==
  /\ ev \in events[c]
  /\ outcome \in EventOutcomes(ev)
  /\ events' = [events EXCEPT ![c] = @ \ {ev}]
  /\ logged' = [logged EXCEPT ![c] =
                  IF outcome.kind = "return" THEN @ ELSE @ \cup {ev.ord}]
  /\ aborted' = [aborted EXCEPT ![c] = (@ \/ outcome.kind # "return")]
  /\ UNCHANGED <<registry, bench, connError, activeConnections, pc, buffer, cur,
                 zombies, counters, nsent, chunks>>

\* a detached event dispatch settles: a result is discarded, an error (the
\* handler's or the timeout's) is caught and logged
EventSettles(c, ev, outcome) ==
  /\ ev \in events[c]
  /\ outcome \in EventOutcomes(ev)
  /\ events' = [events EXCEPT ![c] = @ \ {ev}]
  /\ logged' = [logged EXCEPT ![c] =
                  IF outcome.kind = "return" \/ aborted[c] THEN @
                  ELSE @ \cup {ev.ord}]
  /\ UNCHANGED <<registry, bench, connError, activeConnections, pc, buffer, aborted, cur,
                 zombies, counters, nsent, chunks>>

\* the late result of a timed-out handler is sent as one more reply
ZombieSettles_LateReply(c, k) ==
  /\ k \in zombies[c]
  /\ zombies' = [zombies EXCEPT ![c] = @ \ {k}]
  /\ nsent' = [nsent EXCEPT ![c] = @ + 1]
  /\ UNCHANGED <<registry, bench, connError, activeConnections, pc, buffer, aborted, cur,
                 events, logged, counters, chunks>>

\* a handler whose dispatch timed out returns or throws: the race is over
\* and nothing observes the result
ZombieSettles(c, k) ==
  /\ k \in zombies[c]
  /\ zombies' = [zombies EXCEPT ![c] = @ \ {k}]
  /\ UNCHANGED <<registry, bench, connError, activeConnections, pc, buffer, aborted, cur,
                 events, logged, counters, nsent, chunks>>

Next ==
  \E c \in Conns :
    \/ Accept(c)
    \/ \E chunk \in Chunks : Deliver(c, chunk)
    \/ PeerClose(c)
    \/ Loop(c)
    \/ \E o \in HandlerOutcomes(cur[c].handler) : HandlerSettles(c, o)
    \/ MiddlewareSettles(c)
    \/ TimeoutExpires(c)
    \/ WriteResolves(c)
    \/ WriteBrokenPipe(c)
    \/ WriteFails(c)
    \/ \E ev \in events[c] : \E o \in EventOutcomes(ev) : EventSettles(c, ev, o)
    \/ \E k \in zombies[c] : ZombieSettles(c, k)

Spec ==
  Init /\ [][Next]_vars

\* ------------------------------------------------------------------------
\* Properties
\* ------------------------------------------------------------------------

\* the session of c has just put the reply to its current request on the
\* connection
Replied(c) ==
  cur[c].written

\* the written bytes end with the codec encoding of message m
Carries(bytes, m) ==
  LET e == encode(m)
  IN  /\ Len(e) <= Len(bytes)
      /\ SubSeq(bytes, Len(bytes) - Len(e) + 1, Len(bytes)) = e
      /\ decode(e) = Parsed(m, <<>>)

\* the reply echoes the id of the request, and has no id field when the
\* request had none
EchoesId(reply, request) ==
  IF HasField(request, S_id)
  THEN HasField(reply, S_id) /\ Field(reply, S_id) = Field(request, S_id)
  ELSE ~HasField(reply, S_id)

\* the handlers still executing for requests of connection c
Running(c) ==
  zombies[c]
    \cup (IF pc[c] = "dispatch" /\ cur[c].running THEN {cur[c].ord} ELSE {})

\* C1: on each connection the reply frames are written in the order of the
\* requests: there are never more frames than requests, and the n-th frame
\* written answers the n-th request dispatched, whatever handlers, timers
\* and detached events do in between
C1_RepliesInRequestOrder ==
  \A c \in Conns :
    /\ nsent[c] <= nrequests[c]
    /\ Replied(c) => cur[c].index = nsent[c]

\* the second request of a connection is answered while the handler of the
\* first, which timed out, is still running
C1_Witness ==
  \E c \in Conns :
    /\ Replied(c)
    /\ nsent[c] = 2
    /\ cur[c].ord = 2
    /\ 1 \in zombies[c]

\* C2: on a session that is not cancelled every dispatched request has
\* produced exactly one frame, except the one still being served, which has
\* produced none yet; a frame is only ever written for a request, and the
\* late completion of a timed-out handler adds none
C2_ExactlyOneReply ==
  \A c \in Conns :
    /\ nsent[c] <= nrequests[c]
    /\ ~aborted[c] =>
         nsent[c] = nrequests[c]
                      - (IF pc[c] \in {"dispatch", "write"} THEN 1 ELSE 0)
    /\ Replied(c) => cur[c].disp = "request"
    /\ cur[c].disp \in {"event", "dropped"} => cur[c].bytes = <<>>

\* a timeout reply was written and the handler it abandoned has completed
\* since
C2_Witness ==
  \E c \in Conns :
    /\ Replied(c)
    /\ cur[c].outcome.kind = "timeout"
    /\ cur[c].ord \notin zombies[c]
    /\ nsent[c] = nrequests[c]

\* C3: the reply to a request whose handler returned y has pattern "REPLY",
\* patternType REQUEST, data y (null when nothing was returned) and the id
\* of the request, or no id field when the request had none; this is the
\* message whose encoding the written bytes carry
C3_SuccessReply ==
  \A c \in Conns :
    (Replied(c) /\ cur[c].outcome.kind = "return") =>
      LET reply == cur[c].reply
          y == cur[c].outcome.v
      IN  /\ Field(reply, S_pattern) = Str(S_REPLY)
          /\ Field(reply, S_patternType) = Num(0)
          /\ HasField(reply, S_data)
          /\ Field(reply, S_data) = (IF y = Undefined THEN Null ELSE y)
          /\ EchoesId(reply, cur[c].msg)
          /\ Carries(cur[c].bytes, reply)

\* a handler that returned nothing answers a request without id
C3_Witness ==
  \E c \in Conns :
    /\ Replied(c)
    /\ cur[c].outcome = Returned(Undefined)
    /\ ~HasField(cur[c].msg, S_id)
    /\ Field(cur[c].reply, S_data) = Null

\* C4: the bytes of every reply written are one frame: a 4-byte big-endian
\* length N followed by exactly N bytes which decode to the reply message
C4_ReplyIsOneFrame ==
  \A c \in Conns :
    Replied(c) =>
      LET b == cur[c].bytes
      IN  /\ Len(b) >= 4
          /\ Len(b) = 4 + getUint32(b)
          /\ deserialize(Drop(b, 4)) = Parsed(cur[c].reply, <<>>)

\* the time after which the dispatch of a request gives up, as the request
\* states it
StatedTimeout(request) ==
  IF HasField(request, S_timeoutMs) THEN Field(request, S_timeoutMs).n
  ELSE 5000

\* a reply whose data is the object {error: text}
ErrorReplyWith(reply, text) ==
  /\ Field(reply, S_pattern) = Str(S_REPLY)
  /\ Field(reply, S_data) = Obj(<< <<S_error, Str(text)>> >>)

\* the session is alive: its token has not fired, its connection is open
\* and its loop is about to take the next message
GoesOn(c) ==
  /\ ~aborted[c]
  /\ c \in activeConnections
  /\ pc[c] = "loop"

\* the step in which the dispatch of c's current request settles with an
\* outcome of the given kind
SettlesWith(c, kind) ==
  /\ pc[c] = "dispatch"
  /\ pc'[c] # "dispatch"
  /\ cur'[c].outcome.kind = kind

\* C5: a request whose handler is still pending after N ms, N being the
\* timeoutMs of the request or 5000 when it has none, is answered with data
\* {error: "Timeout after <N>ms"} and its id; the expiry leaves the session
\* token alone and the session goes on with its loop
C5_TimeoutReply ==
  /\ [](\A c \in Conns :
          (Replied(c) /\ cur[c].outcome.kind = "timeout") =>
            /\ ErrorReplyWith(cur[c].reply,
                 S_TimeoutAfter \o DecimalString(StatedTimeout(cur[c].msg)) \o S_ms)
            /\ EchoesId(cur[c].reply, cur[c].msg)
            /\ Carries(cur[c].bytes, cur[c].reply)
            /\ GoesOn(c))
  /\ [][\A c \in Conns :
          SettlesWith(c, "timeout") =>
            /\ aborted'[c] = aborted[c]
            /\ activeConnections' = activeConnections
            /\ ~aborted[c] => pc'[c] = "write"]_vars

\* the second request of a connection, which asks for 6000 ms, is answered
\* with a timeout after the first one had timed out too
C5_Witness ==
  \E c \in Conns :
    /\ Replied(c)
    /\ cur[c].outcome = TimedOut(6000)
    /\ cur[c].ord = 2
    /\ 1 \in zombies[c]

\* the statement of C6 as the specification has it: the data of the reply
\* is {error: m} for every message m of the error raised
C6_ErrorReplyVerbatim ==
  \A c \in Conns :
    (Replied(c) /\ cur[c].outcome.kind = "throw") =>
      ErrorReplyWith(cur[c].reply, cur[c].outcome.v.s)

\* C6: an error with message m raised by the handler or a middleware of a
\* request is answered with the id of the request, pattern "REPLY" and data
\* {error: m}, or {error: "Handler failed"} when m is empty; the error does
\* not fire the session token and the session goes on with its loop
C6_ErrorReply ==
  /\ [](\A c \in Conns :
          (Replied(c) /\ cur[c].outcome.kind = "throw") =>
            LET m == cur[c].outcome.v.s
            IN  /\ ErrorReplyWith(cur[c].reply,
                                  IF m = <<>> THEN S_HandlerFailed ELSE m)
                /\ EchoesId(cur[c].reply, cur[c].msg)
                /\ Carries(cur[c].bytes, cur[c].reply)
                /\ GoesOn(c))
  /\ [][\A c \in Conns :
          SettlesWith(c, "throw") =>
            /\ aborted'[c] = aborted[c]
            /\ activeConnections' = activeConnections
            /\ ~aborted[c] => pc'[c] = "write"]_vars

\* the second request of a connection is answered with "Handler failed":
\* its handler raised an error with an empty message
C6_Witness ==
  \E c \in Conns :
    /\ Replied(c)
    /\ cur[c].outcome = Thrown(<<>>)
    /\ cur[c].index = 2
    /\ GoesOn(c)

\* C7: at most one handler of a request is executing per connection
C7_RequestsDoNotOverlap ==
  \A c \in Conns : Cardinality(Running(c)) <= 1

\* the message has no handler in the namespace its patternType selects
Unhandled(msg) ==
  LET p == Field(msg, S_pattern)
  IN  IF Field(msg, S_patternType) = Num(0)
      THEN p.s \notin DOMAIN requestHandlers
      ELSE p.s \notin DOMAIN eventHandlers

\* C8: a message is dropped exactly when its pattern has no handler in the
\* namespace of its patternType; dropping it writes no frame, starts no
\* handler and no middleware, leaves the session token alone, and the
\* session goes on with its loop
C8_UnknownPatternDropped ==
  /\ [](\A c \in Conns :
          /\ cur[c].disp # "none" =>
               (cur[c].disp = "dropped" <=> Unhandled(cur[c].msg))
          /\ cur[c].disp = "dropped" =>
               /\ GoesOn(c)
               /\ ~Replied(c)
               /\ cur[c].bytes = <<>>
               /\ cur[c].ord \notin zombies[c]
               /\ \A ev \in events[c] : ev.ord # cur[c].ord)
  /\ [][\A c \in Conns :
          (ndecoded'[c] # ndecoded[c] /\ Unhandled(cur'[c].msg)) =>
            /\ nsent' = nsent
            /\ nrequests' = nrequests
            /\ aborted' = aborted
            /\ events' = events
            /\ zombies' = zombies
            /\ logged' = logged]_vars

\* the second message of a connection is an event for a pattern registered
\* for requests only, and it is dropped after the first request was answered
C8_Witness ==
  \E c \in Conns :
    /\ cur[c].disp = "dropped"
    /\ cur[c].msg = EventAdd
    /\ cur[c].ord = 2
    /\ nsent[c] = 1

\* C9: an event never puts a frame on the connection, whether its dispatch
\* returns, throws or times out; an error of its handler or middleware is
\* logged only: the step that starts or settles the dispatch of an event
\* leaves the session token, the connection and the frames written as they
\* are, and the loop goes on
C9_EventsAreSilent ==
  /\ [](\A c \in Conns :
          /\ Replied(c) => cur[c].disp = "request"
          /\ cur[c].disp = "event" => cur[c].bytes = <<>> /\ GoesOn(c))
  /\ [][\A c \in Conns :
          (logged'[c] # logged[c] \/ (events'[c] # events[c] /\ ~aborted'[c]))
            => /\ nsent' = nsent
               /\ aborted' = aborted
               /\ activeConnections' = activeConnections
               /\ pc'[c] \in {pc[c], "loop"}]_vars

\* the error of the first message, an event, was logged, and the request
\* that followed it on the connection has been answered
C9_Witness ==
  \E c \in Conns :
    /\ logged[c] = {1}
    /\ Replied(c)
    /\ cur[c].ord = 2

\* C10: no session waits for the payload of a frame whose header announces
\* more than MAX_MESSAGE_SIZE bytes
C10_OversizeHeaderFails ==
  \A c \in Conns :
    ~(/\ pc[c] = "read"
      /\ Len(buffer[c]) >= 4
      /\ getUint32(buffer[c]) > MAX_MESSAGE_SIZE)

\* the buffer of the session holds a frame the framer has to refuse: its
\* header announces more than MAX_MESSAGE_SIZE bytes
FramingError(c) ==
  Len(buffer[c]) >= 4 /\ getUint32(buffer[c]) > MAX_MESSAGE_SIZE

\* the session of c is over: token fired, connection closed and forgotten
Closed(c) ==
  /\ aborted[c]
  /\ pc[c] = "closed"
  /\ c \notin activeConnections

\* C11: a session that met a framing error or a decoding error is over, its
\* token fired and its connection closed; the step in which a session fails
\* changes nothing of any other session, and connections not accepted yet
\* can still be accepted
C11_ErrorsFatalToSessionOnly ==
  /\ [](\A c \in Conns :
          (FramingError(c) \/ connError[c] = "decode") => Closed(c))
  /\ [][\A c \in Conns :
          connError'[c] # connError[c] =>
            \A d \in Conns \ {c} :
              /\ pc'[d] = pc[d]
              /\ aborted'[d] = aborted[d]
              /\ buffer'[d] = buffer[d]
              /\ cur'[d] = cur[d]
              /\ nsent'[d] = nsent[d]
              /\ (d \in activeConnections' <=> d \in activeConnections)]_vars

\* ------------------------------------------------------------------------
\* The frame readers on a stream of their own: the peer frames a list of
\* payloads, the stream hands the bytes over in chunks of any size and then
\* ends; the last bytes may be lost
\* ------------------------------------------------------------------------

MaxFrames ==
  2

MaxLost ==
  3

MAX_BUFFER_SIZE ==
  16 * 1024 * 1024

Payloads ==
  {<<>>, <<7>>, <<7, 9>>}

PayloadLists ==
  UNION { [1..k -> Payloads] : k \in 0..MaxFrames }

\* the bytes of the frames of a list of payloads, one after the other
RECURSIVE Framed(_)
Framed(ps) ==
  IF ps = <<>> THEN <<>> ELSE createFrameMessage(Head(ps)) \o Framed(Tail(ps))

\* the chunk replaces what is buffered
concat_Replace(a, b) ==
  b

\* StreamReader.concat, FrameReader.concat
concat(a, b) ==
  IF Len(a) = 0 THEN b ELSE a \o b

\* StreamReader.readUint32BigEndian at offset 0
readUint32BigEndian(b) ==
  ((b[1] * 256 + b[2]) * 256 + b[3]) * 256 + b[4]

\* one pass of the loop of StreamReader.next on a buffer: a payload, an
\* error, or the need to read more (for the header, or for the payload)
StreamReader_next(buf) ==
  IF Len(buf) > MAX_BUFFER_SIZE
  THEN [kind |-> "BufferOverflow", msg |-> <<>>, buffer |-> buf]
  ELSE IF Len(buf) < 4
  THEN [kind |-> "read", msg |-> <<>>, buffer |-> buf]
  ELSE LET length == readUint32BigEndian(buf)
       IN  IF length > MAX_MESSAGE_SIZE
           THEN [kind |-> "InvalidLength", msg |-> <<>>, buffer |-> buf]
           ELSE IF Len(buf) >= 4 + length
           THEN [kind |-> "msg", msg |-> SubSeq(buf, 5, 4 + length),
                 buffer |-> Drop(buf, 4 + length)]
           ELSE [kind |-> "readPayload", msg |-> <<>>, buffer |-> buf]

\* one pass of the loop of next() of the reader of the given kind
Reader_next(kind, buf) ==
  IF kind = "StreamReader" THEN StreamReader_next(buf)
  ELSE FrameReader_next(buf)

\* next() goes on with the buffer buf until it returns, throws or has to
\* await the stream, of which the bytes in stream are still to come
ReaderRuns(buf, stream) ==
  LET r == Reader_next(reader.kind, buf)
  IN  reader' =
        [reader EXCEPT
           !.buffer = r.buffer,
           !.stream = stream,
           !.got = IF r.kind = "msg" THEN Append(@, r.msg) ELSE @,
           !.split = @ \/ (r.kind = "read" /\ Len(buf) \in 1..3),
           !.status = IF r.kind = "msg" THEN "idle" ELSE r.kind]

\* the caller calls next()
ReaderCall ==
  /\ reader.status = "idle"
  /\ ReaderRuns(reader.buffer, reader.stream)
  /\ UNCHANGED <<registry, server, aside, codec, chain, lastCall>>

\* reader.read() resolves with the next k bytes of the stream
ReaderChunk(k) ==
  /\ reader.status \in {"read", "readPayload"}
  /\ k \in 1..Len(reader.stream)
  /\ ReaderRuns(concat(reader.buffer, SubSeq(reader.stream, 1, k)),
                Drop(reader.stream, k))
  /\ UNCHANGED <<registry, server, aside, codec, chain, lastCall>>

\* how next() ends when reader.read() resolves with done: FrameReader
\* returns null at both of its reads, StreamReader returns null at the read
\* for the header and looks at its buffer at the read for the payload
ReaderEnds(kind, status, buf) ==
  IF kind = "StreamReader" /\ status = "readPayload" /\ Len(buf) > 0
  THEN "Incomplete"
  ELSE "eos"

\* reader.read() resolves with done: the stream has ended
ReaderDone ==
  /\ reader.status \in {"read", "readPayload"}
  /\ reader.stream = <<>>
  /\ reader' = [reader EXCEPT
                  !.status = ReaderEnds(reader.kind, reader.status, reader.buffer)]
  /\ UNCHANGED <<registry, server, aside, codec, chain, lastCall>>

\* a reader of either class on a stream that carries the frames of a list
\* of payloads, less the bytes lost at the end
ReaderInit ==
  /\ peer = NoPeers
  /\ Registered
  /\ NoSessions
  /\ codec = NoCodec
  /\ chain = NoChain
  /\ lastCall = NoCall
  /\ controllers = NoControllers
  /\ transport = NoTransport
  /\ \E kind \in {"FrameReader", "StreamReader"}, ps \in PayloadLists,
        lost \in 0..MaxLost :
       /\ lost <= Len(Framed(ps))
       /\ reader = [NoReader EXCEPT
                      !.kind = kind,
                      !.stream = SubSeq(Framed(ps), 1, Len(Framed(ps)) - lost),
                      !.sent = ps,
                      !.lost = lost,
                      !.status = "idle"]

ReaderNext ==
  \/ ReaderCall
  \/ \E k \in 1..Len(reader.stream) : ReaderChunk(k)
  \/ ReaderDone

ReaderSpec ==
  ReaderInit /\ [][ReaderNext]_vars

\* C12: next() returns end-of-stream only with an empty buffer: when the
\* stream ends while bytes are buffered, be it 1 to 3 bytes of a header or a
\* header with a part of its payload, next() fails with the
\* incomplete-message error
C12_CleanEndOnlyWhenEmpty ==
  /\ [](reader.status = "eos" => reader.buffer = <<>>)
  /\ [][(/\ reader.status \in {"read", "readPayload"}
         /\ reader.stream = <<>>
         /\ reader.buffer # <<>>
         /\ reader'.status # reader.status)
          => reader'.status = "Incomplete"]_vars

\* the payloads returned so far are the first payloads framed, in order
RECURSIVE IsPrefix(_, _)
IsPrefix(a, b) ==
  \/ a = <<>>
  \/ /\ b # <<>>
     /\ Head(a) = Head(b)
     /\ IsPrefix(Tail(a), Tail(b))

S_a ==
  <<97>>

\* values for the data field: nil, numbers of each width, a string, a map
DataValues ==
  {Null, Num(5), Num(200), Num(6000), Str(S_ok),
   Obj(<< <<S_a, Num(5)>>, <<S_error, Str(S_nope)>> >>)}

\* RpcMessage objects: id and timeoutMs are optional
Messages ==
  { Obj( (IF id = Undefined THEN <<>> ELSE << <<S_id, id>> >>)
         \o << <<S_pattern, Str(pattern)>>, <<S_data, data>>,
               <<S_patternType, Num(type)>> >>
         \o (IF timeoutMs = Undefined THEN <<>>
             ELSE << <<S_timeoutMs, timeoutMs>> >>) ) :
      id \in {Undefined, Str(<<114, 49>>)},
      pattern \in {P_add, P_health, S_REPLY},
      data \in DataValues,
      type \in {MESSAGE_PATTERN_REQUEST, MESSAGE_PATTERN_EVENT},
      timeoutMs \in {Undefined, Num(2000)} }

CodecInit ==
  /\ peer = NoPeers
  /\ Registered
  /\ NoSessions
  /\ reader = NoReader
  /\ chain = NoChain
  /\ lastCall = NoCall
  /\ controllers = NoControllers
  /\ transport = NoTransport
  /\ \E m \in Messages : codec = [NoCodec EXCEPT !.msg = m, !.status = "message"]

\* serializer.serialize(message)
CodecSerialize ==
  /\ codec.status = "message"
  /\ codec' = [codec EXCEPT !.bytes = serialize(codec.msg),
                            !.status = "serialized"]
  /\ UNCHANGED <<registry, server, aside, reader, chain, lastCall>>

\* serializer.deserialize(bytes) on the bytes serialize returned
CodecDeserialize ==
  /\ codec.status = "serialized"
  /\ codec' = [codec EXCEPT !.out = deserialize(codec.bytes),
                            !.status = "deserialized"]
  /\ UNCHANGED <<registry, server, aside, reader, chain, lastCall>>

\* serializer.deserialize(bytes.slice(4))
CodecDeserializePayload ==
  /\ codec.status = "serialized"
  /\ codec' = [codec EXCEPT !.out = deserialize(Drop(codec.bytes, 4)),
                            !.status = "payloadDeserialized"]
  /\ UNCHANGED <<registry, server, aside, reader, chain, lastCall>>

CodecNext ==
  \/ CodecSerialize
  \/ CodecDeserialize
  \/ CodecDeserializePayload

CodecSpec ==
  CodecInit /\ [][CodecNext]_vars

\* C14: deserialize applied to the bytes serialize returned for a message
\* gives the message back
C14_DeserializeInvertsSerialize ==
  codec.status = "deserialized" => codec.out = Parsed(codec.msg, <<>>)

\* decode inverts encode: deserialize gives the message back from the
\* bytes of serialize without the 4-byte header
PayloadRoundTrip ==
  codec.status = "payloadDeserialized" => codec.out = Parsed(codec.msg, <<>>)

\* C15: a message is handed to a request handler or to an event handler
\* only if its patternType is 0 or 1; with any other patternType no handler
\* is invoked for it
C15_PatternTypeValidated ==
  \A c \in Conns :
    cur[c].disp \in {"request", "event"} =>
      Field(cur[c].msg, S_patternType)
        \in {Num(MESSAGE_PATTERN_REQUEST), Num(MESSAGE_PATTERN_EVENT)}

\* ------------------------------------------------------------------------
\* The registry on its own: external code calls the methods of an
\* RpcHandler, and constructs a TcpTransport on it at some point
\* ------------------------------------------------------------------------

MaxCalls ==
  3

Patterns ==
  {P_add, P_health}

MiddlewareLists ==
  {<<"LoggingMiddleware">>, <<"guard">>, <<"guard", "LoggingMiddleware">>}

\* registries of controllers, as getControllerHandler returns them
OtherHandlers ==
  { [requestHandlers |-> (P_add :> "other"),
     eventHandlers |-> (P_add :> "onEvt"),
     globalMiddleware |-> <<"guard">>,
     handlerMiddleware |-> (P_add :> <<"guard">>)],
    [requestHandlers |-> (P_health :> "other"),
     eventHandlers |-> << >>,
     globalMiddleware |-> << >>,
     handlerMiddleware |-> << >>] }

\* new RpcHandler()
RegistryInit ==
  /\ peer = NoPeers
  /\ requestHandlers = << >>
  /\ eventHandlers = << >>
  /\ globalMiddleware = << >>
  /\ handlerMiddleware = << >>
  /\ NoSessions
  /\ reader = NoReader
  /\ codec = NoCodec
  /\ chain = NoChain
  /\ lastCall = NoCall
  /\ controllers = NoControllers
  /\ transport = NoTransport

\* Map.set(key, value)
MapSet(map, key, value) ==
  [k \in DOMAIN map \cup {key} |-> IF k = key THEN value ELSE map[k]]

\* the per-pattern middleware list of a pattern, empty when it has none
PerPattern(pattern) ==
  IF pattern \in DOMAIN handlerMiddleware THEN handlerMiddleware[pattern]
  ELSE <<>>

\* the record of a call just made
Called(name, pattern, handler, middleware) ==
  [lastCall EXCEPT !.name = name, !.pattern = pattern, !.handler = handler,
                   !.middleware = middleware, !.before = PerPattern(pattern),
                   !.calls = @ + 1,
                   !.was = [requestHandlers |-> requestHandlers,
                            eventHandlers |-> eventHandlers,
                            globalMiddleware |-> globalMiddleware,
                            handlerMiddleware |-> handlerMiddleware],
                   !.other = NoRegistry, !.left = NoRegistry]

\* messagePattern on a registry with one namespace for both pattern types
messagePattern_OneNamespace(pattern, handler) ==
  /\ lastCall.calls < MaxCalls
  /\ requestHandlers' = MapSet(requestHandlers, pattern, handler)
  /\ eventHandlers' = MapSet(eventHandlers, pattern, handler)
  /\ lastCall' = [Called("messagePattern", pattern, handler, <<>>)
                    EXCEPT !.currentPattern = pattern]
  /\ UNCHANGED <<globalMiddleware, handlerMiddleware, server, aside,
                 reader, codec, chain>>

\* RpcHandler.messagePattern
messagePattern(pattern, handler) ==
  /\ lastCall.calls < MaxCalls
  /\ requestHandlers' = MapSet(requestHandlers, pattern, handler)
  /\ lastCall' = [Called("messagePattern", pattern, handler, <<>>)
                    EXCEPT !.currentPattern = pattern]
  /\ UNCHANGED <<eventHandlers, globalMiddleware, handlerMiddleware, server, aside,
                 reader, codec, chain>>

\* RpcHandler.eventPattern
eventPattern(pattern, handler) ==
  /\ lastCall.calls < MaxCalls
  /\ eventHandlers' = MapSet(eventHandlers, pattern, handler)
  /\ lastCall' = [Called("eventPattern", pattern, handler, <<>>)
                    EXCEPT !.currentPattern = pattern]
  /\ UNCHANGED <<requestHandlers, globalMiddleware, handlerMiddleware, server, aside,
                 reader, codec, chain>>

\* useFilters that adds to the list the pattern already has
useFilters_Append(pattern, middleware) ==
  /\ lastCall.calls < MaxCalls
  /\ handlerMiddleware' =
       MapSet(handlerMiddleware, pattern, PerPattern(pattern) \o middleware)
  /\ lastCall' = [Called("useFilters", pattern, "none", middleware)
                    EXCEPT !.filters = MapSet(@, pattern, middleware)]
  /\ UNCHANGED <<requestHandlers, eventHandlers, globalMiddleware, server, aside,
                 reader, codec, chain>>

\* RpcHandler.useFilters
useFilters(pattern, middleware) ==
  /\ lastCall.calls < MaxCalls
  /\ handlerMiddleware' = MapSet(handlerMiddleware, pattern, middleware)
  /\ lastCall' = [Called("useFilters", pattern, "none", middleware)
                    EXCEPT !.filters = MapSet(@, pattern, middleware)]
  /\ UNCHANGED <<requestHandlers, eventHandlers, globalMiddleware, server, aside,
                 reader, codec, chain>>

\* RpcHandler.use
use(middleware) ==
  /\ lastCall.calls < MaxCalls
  /\ globalMiddleware' = globalMiddleware \o middleware
  /\ lastCall' = [Called("use", <<>>, "none", middleware)
                    EXCEPT !.used = @ \o middleware]
  /\ UNCHANGED <<requestHandlers, eventHandlers, handlerMiddleware, server, aside,
                 reader, codec, chain>>

\* every entry of map other written into map
MapSetAll(map, other) ==
  [k \in DOMAIN map \cup DOMAIN other |->
     IF k \in DOMAIN other THEN other[k] ELSE map[k]]

\* merge that takes the middleware of the other registry as well
merge_WithMiddleware(other) ==
  /\ lastCall.calls < MaxCalls
  /\ requestHandlers' = MapSetAll(requestHandlers, other.requestHandlers)
  /\ eventHandlers' = MapSetAll(eventHandlers, other.eventHandlers)
  /\ globalMiddleware' = globalMiddleware \o other.globalMiddleware
  /\ handlerMiddleware' = MapSetAll(handlerMiddleware, other.handlerMiddleware)
  /\ lastCall' = [Called("merge", <<>>, "none", <<>>)
                    EXCEPT !.other = other, !.left = other]
  /\ UNCHANGED <<server, aside, reader, codec, chain>>

\* RpcHandler.merge: the two loops read the maps of the other registry and
\* write nothing to it
merge(other) ==
  /\ lastCall.calls < MaxCalls
  /\ requestHandlers' = MapSetAll(requestHandlers, other.requestHandlers)
  /\ eventHandlers' = MapSetAll(eventHandlers, other.eventHandlers)
  /\ lastCall' = [Called("merge", <<>>, "none", <<>>)
                    EXCEPT !.other = other, !.left = other]
  /\ UNCHANGED <<globalMiddleware, handlerMiddleware, server, aside, reader, codec,
                 chain>>

\* new TcpTransport(registry): the constructor calls registerHealthCheck
registerHealthCheck ==
  /\ lastCall.calls < MaxCalls
  /\ ~lastCall.constructed
  /\ requestHandlers' = MapSet(requestHandlers, P_health, "health")
  /\ lastCall' = [Called("TcpTransport", <<>>, "none", <<>>)
                    EXCEPT !.constructed = TRUE]
  /\ UNCHANGED <<eventHandlers, globalMiddleware, handlerMiddleware, server, aside,
                 reader, codec, chain>>

RegistryNext ==
  \/ \E p \in Patterns, h \in {"add", "other"} : messagePattern(p, h)
  \/ \E p \in Patterns : eventPattern(p, "onEvt")
  \/ \E p \in Patterns, mw \in MiddlewareLists \cup {<<>>} : useFilters(p, mw)
  \/ \E mw \in MiddlewareLists : use(mw)
  \/ \E other \in OtherHandlers : merge(other)
  \/ registerHealthCheck

RegistrySpec ==
  RegistryInit /\ [][RegistryNext]_vars

\* C16: once a TcpTransport has been constructed on the registry, the
\* request namespace maps "__health__" to the health handler of the
\* framework, whatever is registered or merged afterwards
C16_HealthAlwaysRegistered ==
  lastCall.constructed =>
    /\ P_health \in DOMAIN requestHandlers
    /\ requestHandlers[P_health] = "health"

\* ---------------------------------------------------------------------
\* The middleware chain: runMiddlewareChain, one call at a time
\* ---------------------------------------------------------------------

MaxMiddleware ==
  2

S_ClientDisconnected ==
  <<67, 108, 105, 101, 110, 116, 32, 100, 105, 115, 99, 111, 110, 110, 101, 99, 116, 101, 100>>

S_traceparent ==
  <<116, 114, 97, 99, 101, 112, 97, 114, 101, 110, 116>>

S_splitIsNotAFunction ==
  <<112, 97, 114, 101, 110, 116, 84, 114, 97, 99, 101, 80, 97, 114, 101, 110, 116, 46, 115, 112, 108, 105, 116, 32, 105, 115, 32, 110, 111, 116, 32, 97, 32, 102, 117, 110, 99, 116, 105, 111, 110>>

\* an ordered sequence and a byte string, as the decoder hands them over
Arr(items) ==
  [t |-> "array", n |-> 0, s |-> <<>>, m |-> items]

Bin(bytes) ==
  [t |-> "binary", n |-> 0, s |-> bytes, m |-> <<>>]

\* a span context: the trace it belongs to and its own identifier
Span(traceId, spanId) ==
  [traceId |-> traceId, spanId |-> spanId]

\* the identifiers the tracer makes up for a new trace and a new span
NewTraceId ==
  <<116>>

NewSpanId ==
  <<115>>

\* if (value): undefined, null, 0 and "" are falsy
Truthy(v) ==
  CASE v.t \in {"undefined", "null"} -> FALSE
    [] v.t = "number" -> v.n # 0
    [] v.t = "string" -> v.s # <<>>
    [] OTHER -> TRUE

\* String.prototype.split on a one-character separator
RECURSIVE Split(_, _)
Split(chars, sep) ==
  IF \E i \in 1..Len(chars) : chars[i] = sep
  THEN LET i == CHOOSE i \in 1..Len(chars) :
                  /\ chars[i] = sep
                  /\ \A j \in 1..(i - 1) : chars[j] # sep
       IN  <<SubSeq(chars, 1, i - 1)>>
             \o Split(SubSeq(chars, i + 1, Len(chars)), sep)
  ELSE <<chars>>

\* /^[a-f0-9]{n}$/
IsHex(chars, n) ==
  /\ Len(chars) = n
  /\ \A i \in 1..Len(chars) : chars[i] \in (48..57) \cup (97..102)

\* startRpcSpan: a truthy parentTraceParent is split at "-", which throws a
\* TypeError when it is not a string; a well-formed one makes the span a
\* child of the trace it names, any other string is ignored
startRpcSpan(pattern, patternType, parentTraceParent) ==
  IF ~Truthy(parentTraceParent)
  THEN [ok |-> TRUE, span |-> Span(NewTraceId, NewSpanId)]
  ELSE IF parentTraceParent.t # "string"
  THEN [ok |-> FALSE, span |-> Span(<<>>, <<>>)]
  ELSE LET parts == Split(parentTraceParent.s, 45)
       IN  IF /\ Len(parts) >= 4
              /\ parts[1] = <<48, 48>>
              /\ IsHex(parts[2], 32)
              /\ IsHex(parts[3], 16)
           THEN [ok |-> TRUE, span |-> Span(parts[2], NewSpanId)]
           ELSE [ok |-> TRUE, span |-> Span(NewTraceId, NewSpanId)]

\* `00-${sc.traceId}-${sc.spanId}-01`
TraceParentOf(span) ==
  <<48, 48, 45>> \o span.traceId \o <<45>> \o span.spanId \o <<45, 48, 49>>

\* { ...data, key: value }: an own key keeps its place, a new one is added
\* at the end
SetPair(pairs, key, value) ==
  IF \E i \in 1..Len(pairs) : pairs[i][1] = key
  THEN [i \in 1..Len(pairs) |->
          IF pairs[i][1] = key THEN <<key, value>> ELSE pairs[i]]
  ELSE Append(pairs, <<key, value>>)

\* the own enumerable properties { ...data } copies: the pairs of a
\* mapping, the elements of a sequence or of a byte string under their
\* indices
OwnPairs(data) ==
  CASE data.t = "object" -> data.m
    [] data.t = "array" ->
         [i \in 1..Len(data.m) |-> <<DecimalString(i - 1), data.m[i]>>]
    [] data.t = "binary" ->
         [i \in 1..Len(data.s) |-> <<DecimalString(i - 1), Num(data.s[i])>>]
    [] OTHER -> <<>>

\* injectTraceContext: typeof data === "object" holds of mappings, of
\* sequences and of byte strings
injectTraceContext(span, data) ==
  IF data.t \notin {"object", "array", "binary"} THEN data
  ELSE Obj(SetPair(OwnPairs(data), S_traceparent, Str(TraceParentOf(span))))

\* the data handed to a middleware by mistake: the data of the message as
\* it was received
MiddlewareData_Received(msg, enrichedData) ==
  Field(msg, S_data)

\* { ...msg, data: enrichedData }: the data a middleware is handed
MiddlewareData(msg, enrichedData) ==
  enrichedData

\* the middleware of a chain and the requests dispatched through it
ChainMiddleware ==
  {"LoggingMiddleware", "guard", "cache"}

ChainLists ==
  UNION { [1..n -> ChainMiddleware] : n \in 0..MaxMiddleware }

RequestObj ==
  Obj(<< <<S_id, Str(<<114, 50>>)>>, <<S_pattern, Str(P_add)>>,
         <<S_data, Obj(<< <<S_a, Num(1)>> >>)>>,
         <<S_patternType, Num(MESSAGE_PATTERN_REQUEST)>> >>)

\* a request for "add" with the given data
RequestWith(data) ==
  Obj(<< <<S_id, Str(<<114, 51>>)>>, <<S_pattern, Str(P_add)>>,
         <<S_data, data>>,
         <<S_patternType, Num(MESSAGE_PATTERN_REQUEST)>> >>)

\* a well-formed traceparent, and malformed ones: too short, not
\* hexadecimal, of another version
TP_WellFormed ==
  <<48, 48, 45, 48, 97, 102, 55, 54, 53, 49, 57, 49, 54, 99, 100, 52, 51, 100, 100, 56, 52, 52, 56, 101, 98, 50, 49, 49, 99, 56, 48, 51, 49, 57, 99, 45, 98, 55, 97, 100, 54, 98, 55, 49, 54, 57, 50, 48, 51, 51, 51, 49, 45, 48, 49>>

TP_Short ==
  <<48, 48, 45, 97, 98, 99, 45, 100, 101, 102, 45, 48, 49>>

TP_NotHex ==
  <<48, 48, 45, 48, 97, 102, 55, 54, 53, 49, 57, 49, 54, 99, 100, 52, 51, 100, 100, 56, 52, 52, 56, 101, 98, 50, 49, 49, 99, 56, 48, 51, 49, 57, 103, 45, 98, 55, 97, 100, 54, 98, 55, 49, 54, 57, 50, 48, 51, 51, 51, 49, 45, 48, 49>>

TP_Version ==
  <<48, 49, 45, 48, 97, 102, 55, 54, 53, 49, 57, 49, 54, 99, 100, 52, 51, 100, 100, 56, 52, 52, 56, 101, 98, 50, 49, 49, 99, 56, 48, 51, 49, 57, 99, 45, 98, 55, 97, 100, 54, 98, 55, 49, 54, 57, 50, 48, 51, 51, 51, 49, 45, 48, 49>>

\* data that carries a traceparent
Traced(traceparent) ==
  Obj(<< <<S_traceparent, traceparent>>, <<S_a, Num(1)>> >>)

TracedData ==
  { Traced(Str(TP_WellFormed)), Traced(Str(TP_Short)), Traced(Str(TP_NotHex)),
    Traced(Str(TP_Version)), Traced(Num(7)), Traced(Num(0)), Traced(Null),
    Traced(Obj(<<>>)) }

\* data that is no mapping
PlainData ==
  { Null, Str(S_a), Arr(<<Num(1), Num(2)>>), Bin(<<7>>) }

ChainMessages ==
  {RequestAdd, RequestObj}
    \cup { RequestWith(data) : data \in TracedData \cup PlainData }

\* a call observed: who was called (a position in the chain, 0 for the
\* handler), at which point, and the data it was handed
Call(who, what, data) ==
  [who |-> who, what |-> what, data |-> data]

\* handleRequest has called executeWithTracing with a message, the handler
\* and the middleware of its pattern
ChainInit ==
  /\ peer = NoPeers
  /\ Registered
  /\ NoSessions
  /\ reader = NoReader
  /\ codec = NoCodec
  /\ lastCall = NoCall
  /\ controllers = NoControllers
  /\ transport = NoTransport
  /\ \E msg \in ChainMessages, middleware \in ChainLists :
       chain = [NoChain EXCEPT !.msg = msg,
                               !.handler = "add",
                               !.middleware = middleware,
                               !.status = "called"]

\* (data as Record<string, unknown>)?.traceparent
TraceParentIn(data) ==
  Field(data, S_traceparent)

\* executeWithTracing up to the call of runMiddlewareChain: the span is
\* started and the data enriched; an error startRpcSpan throws rejects the
\* dispatch before any middleware or handler is called
executeWithTracing ==
  /\ chain.status = "called"
  /\ LET data == Field(chain.msg, S_data)
         started == startRpcSpan(Field(chain.msg, S_pattern),
                                 Field(chain.msg, S_patternType),
                                 TraceParentIn(data))
     IN  chain' =
           IF started.ok
           THEN [chain EXCEPT !.span = started.span,
                              !.spanLog = <<"startSpan">>,
                              !.data = injectTraceContext(started.span, data),
                              !.status = "running"]
           ELSE [chain EXCEPT !.result = Thrown(S_splitIsNotAFunction),
                              !.status = "failed"]
  /\ UNCHANGED <<registry, server, reader, codec, lastCall, controllers,
                 transport, peer>>

\* executeWithTracing from the settlement of its race: the span is given
\* its outcome (and the exception when there is one) and is ended
raceSettles(ch, outcome) ==
  [ch EXCEPT !.race = outcome,
             !.spanLog = @ \o (IF outcome.kind = "return"
                               THEN <<"rpc.result=success", "end">>
                               ELSE <<"recordException", "rpc.result=error",
                                      "end">>)]

\* a chain in which every middleware called goes on to the next one,
\* whatever it did
Moved_Always(ch, mv, called) ==
  [ch EXCEPT !.index = @ + 1,
             !.moved = Append(@, mv.kind),
             !.trace = Append(@, called)]

\* the chain after a middleware was called: runMiddleware(index + 1) runs
\* only when the middleware calls next(); otherwise what the middleware
\* returned or threw settles its promise
Moved(ch, mv, called) ==
  IF mv.kind = "next"
  THEN [ch EXCEPT !.index = @ + 1,
                  !.moved = Append(@, mv.kind),
                  !.trace = Append(@, called)]
  ELSE [ch EXCEPT !.moved = Append(@, mv.kind),
                  !.trace = Append(@, called),
                  !.result = mv,
                  !.status = "returning"]

\* runMiddleware(index) for index < middleware.length: the middleware is
\* called; it calls next(), or settles the chain itself
MiddlewareCalled ==
  /\ chain.status = "running"
  /\ chain.index < Len(chain.middleware)
  /\ \E mv \in MiddlewareMoves(chain.middleware[chain.index + 1]) :
       chain' = Moved(chain, mv,
                      Call(chain.index + 1, "before",
                           MiddlewareData(chain.msg, chain.data)))
  /\ UNCHANGED <<registry, server, aside, reader, codec, lastCall>>

\* the session is cancelled while a user middleware that was called is
\* suspended before its call of next(); LoggingMiddleware calls next()
\* without suspending first. The abortPromise rejects and settles the race
\* when nothing has settled it before; the chain goes on
SignalAborts ==
  /\ chain.status = "running"
  /\ ~chain.aborted
  /\ chain.index >= 1
  /\ chain.middleware[chain.index] = "guard"
  /\ chain' = IF chain.race = NoOutcome
              THEN raceSettles([chain EXCEPT !.aborted = TRUE],
                               Thrown(S_ClientDisconnected))
              ELSE [chain EXCEPT !.aborted = TRUE]
  /\ UNCHANGED <<registry, server, aside, reader, codec, lastCall>>

\* the timer of executeWithTracing fires while a user middleware is
\* suspended: the timeoutPromise rejects and settles the race; the chain
\* goes on
timeoutFires ==
  /\ chain.status = "running"
  /\ chain.race = NoOutcome
  /\ chain.index >= 1
  /\ chain.middleware[chain.index] = "guard"
  /\ chain' = raceSettles(chain,
                 TimedOut(TimeoutOf(Field(chain.msg, S_timeoutMs))))
  /\ UNCHANGED <<registry, server, aside, reader, codec, lastCall>>

\* runMiddleware(index) for index >= middleware.length: execute() throws
\* when the signal is aborted, and otherwise calls the handler with the
\* enriched data
execute ==
  /\ chain.status = "running"
  /\ chain.index = Len(chain.middleware)
  /\ IF chain.aborted
     THEN chain' = [chain EXCEPT !.result = Thrown(S_ClientDisconnected),
                                 !.status = "returning"]
     ELSE \E outcome \in HandlerOutcomes(chain.handler) :
            chain' = [chain EXCEPT
                        !.trace = Append(@, Call(0, "call", chain.data)),
                        !.result = outcome,
                        !.status = "returning"]
  /\ UNCHANGED <<registry, server, aside, reader, codec, lastCall>>

\* the promise of next() settles and the middleware that awaited it goes
\* on: it passes the result or the error on
MiddlewareResumes ==
  /\ chain.status = "returning"
  /\ chain.index > 0
  /\ chain' = [chain EXCEPT !.index = @ - 1,
                            !.trace = Append(@, Call(chain.index, "after",
                                                     Undefined))]
  /\ UNCHANGED <<registry, server, aside, reader, codec, lastCall>>

\* the promise of runMiddleware(0) settles
ChainSettles ==
  /\ chain.status = "returning"
  /\ chain.index = 0
  /\ chain' = [chain EXCEPT !.status = "settled"]
  /\ UNCHANGED <<registry, server, aside, reader, codec, lastCall>>

\* the promise of the chain settles the race when neither the timer nor
\* the signal has settled it before
raceResolves ==
  /\ chain.status = "settled"
  /\ chain.race = NoOutcome
  /\ chain' = raceSettles(chain, chain.result)
  /\ UNCHANGED <<registry, server, aside, reader, codec, lastCall>>

ChainNext ==
  \/ executeWithTracing
  \/ MiddlewareCalled
  \/ SignalAborts
  \/ timeoutFires
  \/ execute
  \/ MiddlewareResumes
  \/ ChainSettles
  \/ raceResolves

ChainSpec ==
  ChainInit /\ [][ChainNext]_vars

\* the calls of a chain of n middleware that each call next() once, around
\* a handler: the middleware in order, the handler, the middleware in
\* reverse order
Befores(n, data) ==
  [i \in 1..n |-> Call(i, "before", data)]

Afters(n) ==
  [i \in 1..n |-> Call(n + 1 - i, "after", Undefined)]

HandlerCalls ==
  Cardinality({ i \in 1..Len(chain.trace) : chain.trace[i].who = 0 })

EveryMiddlewareCallsNext ==
  /\ Len(chain.moved) = Len(chain.middleware)
  /\ \A i \in 1..Len(chain.moved) : chain.moved[i] = "next"

\* C17 as stated: when every middleware of the chain calls next() once, the
\* calls are the middleware in registration order, then the handler, then
\* the middleware resuming in reverse order; the handler is called exactly
\* once, and every middleware and the handler are handed the same enriched
\* data
C17_MiddlewareOrderAlways ==
  (chain.status = "settled" /\ EveryMiddlewareCallsNext) =>
    /\ chain.trace = Befores(Len(chain.middleware), chain.data)
                       \o <<Call(0, "call", chain.data)>>
                       \o Afters(Len(chain.middleware))
    /\ HandlerCalls = 1

\* C17: when every middleware of the chain calls next() once, the calls
\* are the middleware in registration order, then the handler, then the
\* middleware resuming in reverse order, and every middleware and the
\* handler are handed the same enriched data; the handler is called exactly
\* once unless the session was cancelled before the chain reached it, and
\* then it is not called and the dispatch fails with "Client disconnected"
C17_MiddlewareOrder ==
  (chain.status = "settled" /\ EveryMiddlewareCallsNext) =>
    /\ chain.data = injectTraceContext(chain.span, Field(chain.msg, S_data))
    /\ IF chain.aborted
       THEN /\ chain.trace = Befores(Len(chain.middleware), chain.data)
                               \o Afters(Len(chain.middleware))
            /\ HandlerCalls = 0
            /\ chain.result = Thrown(S_ClientDisconnected)
       ELSE /\ chain.trace = Befores(Len(chain.middleware), chain.data)
                               \o <<Call(0, "call", chain.data)>>
                               \o Afters(Len(chain.middleware))
            /\ HandlerCalls = 1

C17_Witness ==
  /\ chain.status = "settled"
  /\ EveryMiddlewareCallsNext
  /\ ~chain.aborted
  /\ Len(chain.middleware) = 2
  /\ chain.middleware[1] # chain.middleware[2]
  /\ chain.data # Field(chain.msg, S_data)
  /\ chain.result.kind = "return"

\* the first middleware that settled the chain without calling next()
ShortCircuitAt(i) ==
  /\ i \in 1..Len(chain.moved)
  /\ chain.moved[i] = "return"

\* C18: when a middleware returns without calling next(), no later
\* middleware and no handler is called, and the value it returned is the
\* result of the dispatch, which is the data of the reply to a request
C18_ShortCircuit ==
  \A i \in 1..MaxMiddleware :
    (chain.status = "settled" /\ ShortCircuitAt(i)) =>
      /\ \A k \in 1..Len(chain.trace) :
           chain.trace[k].who # 0 /\ chain.trace[k].who <= i
      /\ chain.result = Returned(Str(S_cached))
      /\ Field(ReplyMessage(Field(chain.msg, S_id), ReplyData(chain.result)),
               S_data) = Str(S_cached)

C18_Witness ==
  /\ chain.status = "settled"
  /\ Len(chain.middleware) = 2
  /\ ShortCircuitAt(1)
  /\ chain.middleware[2] # "cache"

\* ---------------------------------------------------------------------
\* The middleware of a pattern
\* ---------------------------------------------------------------------

\* the list handed to the last useFilters call for a pattern, empty when
\* there was none
Filters(pattern) ==
  IF pattern \in DOMAIN lastCall.filters THEN lastCall.filters[pattern]
  ELSE <<>>

\* C19: after any sequence of registry calls, getMiddleware(p) is the
\* middleware handed to use(...), in the order of the calls, followed by the
\* list handed to the last useFilters(p, ...): every global middleware comes
\* before every per-pattern middleware
C19_GlobalThenPerPattern ==
  \A p \in Patterns :
    LET mw == getMiddleware(Str(p))
    IN  /\ mw = lastCall.used \o Filters(p)
        /\ \A i \in 1..Len(lastCall.used) : mw[i] = lastCall.used[i]
        /\ \A j \in 1..Len(Filters(p)) :
             mw[Len(lastCall.used) + j] = Filters(p)[j]

C19_Witness ==
  /\ lastCall.used = <<"guard", "LoggingMiddleware">>
  /\ Filters(P_add) = <<"guard">>
  /\ Filters(P_health) = <<>>
  /\ getMiddleware(Str(P_add)) = <<"guard", "LoggingMiddleware", "guard">>
  /\ getMiddleware(Str(P_health)) = <<"guard", "LoggingMiddleware">>

\* C20: useFilters(p, mw) makes mw the per-pattern list of p, whatever the
\* list was before, and leaves the lists of the other patterns, the global
\* middleware and both handler maps as they were
C20_UseFiltersReplaces ==
  [][ (lastCall'.calls # lastCall.calls /\ lastCall'.name = "useFilters") =>
        /\ lastCall'.pattern \in DOMAIN handlerMiddleware'
        /\ handlerMiddleware'[lastCall'.pattern] = lastCall'.middleware
        /\ DOMAIN handlerMiddleware' =
             DOMAIN handlerMiddleware \cup {lastCall'.pattern}
        /\ \A q \in DOMAIN handlerMiddleware :
             q # lastCall'.pattern =>
               handlerMiddleware'[q] = handlerMiddleware[q]
        /\ globalMiddleware' = globalMiddleware
        /\ requestHandlers' = requestHandlers
        /\ eventHandlers' = eventHandlers ]_vars

C20_Witness ==
  /\ lastCall.name = "useFilters"
  /\ lastCall.before = <<"guard", "LoggingMiddleware">>
  /\ lastCall.middleware = <<"guard">>
  /\ handlerMiddleware[lastCall.pattern] = <<"guard">>
  /\ \E q \in DOMAIN handlerMiddleware :
       q # lastCall.pattern /\ handlerMiddleware[q] # <<>>

\* ---------------------------------------------------------------------
\* Merging registries
\* ---------------------------------------------------------------------

\* map a with every entry of map b written into it, key by key
Overwritten(a, b, merged) ==
  /\ DOMAIN merged = DOMAIN a \cup DOMAIN b
  /\ \A k \in DOMAIN b : merged[k] = b[k]
  /\ \A k \in DOMAIN a \ DOMAIN b : merged[k] = a[k]

MaxDecorators ==
  2

MaxExports ==
  2

MaxSteps ==
  4

\* a method of the controller class as a function value: self is the
\* instance it is bound to, 0 for the method as the class declares it
Method(name) ==
  [method |-> name, self |-> 0]

\* Function.prototype.bind: a bound function keeps the this it has
bind(fn, instance) ==
  IF fn.self = 0 THEN [fn EXCEPT !.self = instance] ELSE fn

\* the instances the program constructs: each has a field of its own
Instance ==
  [count |-> 0]

\* the module is loaded and two instances of the class are constructed; the
\* registry of the server is a new RpcHandler()
ControllerInit ==
  /\ peer = NoPeers
  /\ requestHandlers = << >>
  /\ eventHandlers = << >>
  /\ globalMiddleware = << >>
  /\ handlerMiddleware = << >>
  /\ NoSessions
  /\ reader = NoReader
  /\ codec = NoCodec
  /\ chain = NoChain
  /\ lastCall = NoCall
  /\ transport = NoTransport
  /\ controllers = [NoControllers EXCEPT !.status = "declaring",
                                         !.instances = <<Instance, Instance>>]

\* getRpcHandler(target): the registry of the class, created on first use
getRpcHandler(ctl) ==
  IF ctl.handlerRegistry = 0
  THEN [ctl EXCEPT !.objects = Append(@, NoRegistry),
                   !.handlerRegistry = Len(ctl.objects) + 1]
  ELSE ctl

\* a decorator has run
Decorated(ctl, op) ==
  [ctl EXCEPT !.decorators = @ + 1,
              !.last = [op |-> op, export |-> 0, thrown |-> FALSE]]

\* @MessagePattern(pattern) on a method
MessagePattern(pattern, name) ==
  /\ controllers.status = "declaring"
  /\ LET ctl == getRpcHandler(controllers)
         reg == ctl.handlerRegistry
     IN  controllers' =
           Decorated([ctl EXCEPT
                        !.objects[reg].requestHandlers =
                           MapSet(@, pattern, Method(name)),
                        !.currentPattern = pattern], "MessagePattern")
  /\ UNCHANGED <<registry, server, reader, codec, chain, lastCall, transport, peer>>

\* @EventPattern(pattern) on a method
EventPattern(pattern, name) ==
  /\ controllers.status = "declaring"
  /\ LET ctl == getRpcHandler(controllers)
         reg == ctl.handlerRegistry
     IN  controllers' =
           Decorated([ctl EXCEPT
                        !.objects[reg].eventHandlers =
                           MapSet(@, pattern, Method(name)),
                        !.currentPattern = pattern], "EventPattern")
  /\ UNCHANGED <<registry, server, reader, codec, chain, lastCall, transport, peer>>

\* @UseFilters that adds to the list the pattern already has
UseFilters_Append(mw) ==
  /\ controllers.status = "declaring"
  /\ LET ctl == getRpcHandler(controllers)
         reg == ctl.handlerRegistry
         pattern == ctl.currentPattern
         had == ctl.objects[reg].handlerMiddleware
     IN  controllers' =
           Decorated(
             IF pattern # <<>>
             THEN [ctl EXCEPT
                     !.objects[reg].handlerMiddleware =
                        MapSet(@, pattern,
                               (IF pattern \in DOMAIN had THEN had[pattern]
                                ELSE <<>>) \o mw),
                     !.declared =
                        IF controllers.last.op \in {"MessagePattern",
                                                     "EventPattern"}
                        THEN MapSet(@, pattern, mw) ELSE @]
             ELSE ctl, "UseFilters")
  /\ UNCHANGED <<registry, server, reader, codec, chain, lastCall, transport, peer>>

\* @UseFilters(...mw) on a method: the list goes to the pattern the last
\* pattern decorator set, if any. Decorators run bottom to top, so when the
\* decorator before it was a pattern decorator, @UseFilters stands above it
\* on the same method, and the declaration is noted
UseFilters(mw) ==
  /\ controllers.status = "declaring"
  /\ LET ctl == getRpcHandler(controllers)
         reg == ctl.handlerRegistry
         pattern == ctl.currentPattern
     IN  controllers' =
           Decorated(
             IF pattern # <<>>
             THEN [ctl EXCEPT
                     !.objects[reg].handlerMiddleware = MapSet(@, pattern, mw),
                     !.declared =
                        IF controllers.last.op \in {"MessagePattern",
                                                     "EventPattern"}
                        THEN MapSet(@, pattern, mw) ELSE @]
             ELSE ctl, "UseFilters")
  /\ UNCHANGED <<registry, server, reader, codec, chain, lastCall, transport, peer>>

\* @Controller() on the class, after the decorators of its methods
Controller ==
  /\ controllers.status = "declaring"
  /\ controllers' = [Decorated(getRpcHandler(controllers), "Controller")
                       EXCEPT !.status = "defined"]
  /\ UNCHANGED <<registry, server, reader, codec, chain, lastCall, transport, peer>>

\* a step on the exports has been made
Stepped(ctl, op, e, thrown) ==
  [ctl EXCEPT !.steps = @ + 1,
              !.last = [op |-> op, export |-> e, thrown |-> thrown]]

\* getControllerHandler that hands out the registry of the class itself
getControllerHandler_Shared(controller) ==
  /\ controllers.status = "defined"
  /\ controllers.steps < MaxSteps
  /\ Len(controllers.exports) < MaxExports
  /\ controller \in 0..Len(controllers.instances)
  /\ LET isConstructor == controller = 0
         made == IF isConstructor
                 THEN [controllers EXCEPT !.instances = Append(@, Instance)]
                 ELSE controllers
         instance == IF isConstructor THEN Len(made.instances) ELSE controller
         ctl == getRpcHandler(made)
     IN  controllers' =
           Stepped([ctl EXCEPT
                      !.exports = Append(@, [registry |-> ctl.handlerRegistry,
                                             instance |-> instance])],
                   "getControllerHandler", Len(ctl.exports) + 1, FALSE)
  /\ UNCHANGED <<registry, server, reader, codec, chain, lastCall, transport, peer>>

\* getControllerHandler(controller): controller is the class (0: a new
\* instance is constructed) or an instance. The handlers of the registry of
\* the class are bound to the instance and put, with the middleware, into a
\* new RpcHandler
getControllerHandler(controller) ==
  /\ controllers.status = "defined"
  /\ controllers.steps < MaxSteps
  /\ Len(controllers.exports) < MaxExports
  /\ controller \in 0..Len(controllers.instances)
  /\ LET isConstructor == controller = 0
         made == IF isConstructor
                 THEN [controllers EXCEPT !.instances = Append(@, Instance)]
                 ELSE controllers
         instance == IF isConstructor THEN Len(made.instances) ELSE controller
         ctl == getRpcHandler(made)
         handler == ctl.objects[ctl.handlerRegistry]
         boundHandler ==
           [requestHandlers |->
              [k \in DOMAIN handler.requestHandlers |->
                 bind(handler.requestHandlers[k], instance)],
            eventHandlers |->
              [k \in DOMAIN handler.eventHandlers |->
                 bind(handler.eventHandlers[k], instance)],
            globalMiddleware |-> NoRegistry.globalMiddleware
                                   \o handler.globalMiddleware,
            handlerMiddleware |->
              MapSetAll(NoRegistry.handlerMiddleware,
                        handler.handlerMiddleware)]
     IN  controllers' =
           Stepped([ctl EXCEPT
                      !.instanceRegistry = instance,
                      !.objects = Append(@, boundHandler),
                      !.exports = Append(@, [registry |-> Len(ctl.objects) + 1,
                                             instance |-> instance])],
                   "getControllerHandler", Len(ctl.exports) + 1, FALSE)
  /\ UNCHANGED <<registry, server, reader, codec, chain, lastCall, transport, peer>>

\* rpcHandler.merge(exported) on the registry of the server
mergeExport(e) ==
  /\ controllers.status = "defined"
  /\ e \in 1..Len(controllers.exports)
  /\ merge(controllers.objects[controllers.exports[e].registry])

\* exported.use(...mw) and exported.useFilters(pattern, ...mw) on a registry
\* getControllerHandler returned
exportUse(e, mw) ==
  /\ controllers.status = "defined"
  /\ controllers.steps < MaxSteps
  /\ e \in 1..Len(controllers.exports)
  /\ controllers' =
       Stepped([controllers EXCEPT
                  !.objects[controllers.exports[e].registry].globalMiddleware =
                     @ \o mw], "use", e, FALSE)
  /\ UNCHANGED <<registry, server, reader, codec, chain, lastCall, transport, peer>>

exportUseFilters(e, pattern, mw) ==
  /\ controllers.status = "defined"
  /\ controllers.steps < MaxSteps
  /\ e \in 1..Len(controllers.exports)
  /\ controllers' =
       Stepped([controllers EXCEPT
                  !.objects[controllers.exports[e].registry].handlerMiddleware =
                     MapSet(@, pattern, mw)], "useFilters", e, FALSE)
  /\ UNCHANGED <<registry, server, reader, codec, chain, lastCall, transport, peer>>

\* exported.requestHandlers.get(pattern)(data): the method runs on the
\* instance it is bound to and counts in a field of it; called with no this
\* it throws a TypeError
invoke(e, pattern) ==
  /\ controllers.status = "defined"
  /\ controllers.steps < MaxSteps
  /\ e \in 1..Len(controllers.exports)
  /\ LET reg == controllers.objects[controllers.exports[e].registry]
     IN  /\ pattern \in DOMAIN reg.requestHandlers
         /\ LET fn == reg.requestHandlers[pattern]
            IN  controllers' =
                  IF fn.self = 0
                  THEN Stepped(controllers, "invoke", e, TRUE)
                  ELSE Stepped([controllers EXCEPT
                                  !.instances[fn.self].count = @ + 1],
                               "invoke", e, FALSE)
  /\ UNCHANGED <<registry, server, reader, codec, chain, lastCall, transport, peer>>

\* the class declares at most MaxDecorators method decorators
ControllerNext ==
  \/ /\ controllers.decorators < MaxDecorators
     /\ \E pattern \in Patterns : MessagePattern(pattern, "count")
  \/ /\ controllers.decorators < MaxDecorators
     /\ \E pattern \in Patterns : EventPattern(pattern, "count")
  \/ /\ controllers.decorators < MaxDecorators
     /\ UseFilters(<<"guard">>)
  \/ Controller
  \/ \E controller \in 0..2 : getControllerHandler(controller)
  \/ \E e \in 1..MaxExports : mergeExport(e)
  \/ \E e \in 1..MaxExports : exportUse(e, <<"guard">>)
  \/ \E e \in 1..MaxExports, pattern \in Patterns :
       exportUseFilters(e, pattern, <<"LoggingMiddleware">>)
  \/ \E e \in 1..MaxExports, pattern \in Patterns : invoke(e, pattern)

ControllerSpec ==
  ControllerInit /\ [][ControllerNext]_vars

\* the list b ends the list a
EndsWith(a, b) ==
  /\ Len(b) <= Len(a)
  /\ SubSeq(a, Len(a) - Len(b) + 1, Len(a)) = b

\* C22: when a method is declared with @UseFilters(m) above
\* @MessagePattern(p) and the registry getControllerHandler returns for the
\* class has been merged into the registry of the server, the middleware
\* the server runs around the handler of p, getMiddleware(p), holds m
C22_DecoratedFiltersRun ==
  \A p \in Patterns :
    ( /\ lastCall.name = "merge"
      /\ p \in DOMAIN controllers.declared
      /\ controllers.declared[p] # <<>>
      /\ p \in DOMAIN lastCall.other.requestHandlers
      /\ p \in DOMAIN lastCall.other.handlerMiddleware
      /\ lastCall.other.handlerMiddleware[p] = controllers.declared[p]
      /\ getHandler(Str(p), Num(MESSAGE_PATTERN_REQUEST))
           = lastCall.other.requestHandlers[p] )
      => EndsWith(getMiddleware(Str(p)), controllers.declared[p])

\* the registry object an export is
RegistryOf(ctl, e) ==
  ctl.objects[ctl.exports[e].registry]

\* the instances the handlers of a registry run on
InstancesOf(reg) ==
  { reg.requestHandlers[k].self : k \in DOMAIN reg.requestHandlers }
    \cup { reg.eventHandlers[k].self : k \in DOMAIN reg.eventHandlers }

\* every registry object but the one of export e is as it was
OthersUnchanged(e) ==
  /\ Len(controllers'.objects) >= Len(controllers.objects)
  /\ \A id \in 1..Len(controllers.objects) :
       id # controllers'.exports[e].registry =>
         controllers'.objects[id] = controllers.objects[id]

\* C27, in every state: the registries exported are objects of their own,
\* none is the registry of the class, every handler of an export runs on
\* the instance it was exported for, and the registry of the class holds
\* the methods as declared
C27_ExportsAreApart ==
  /\ \A e1, e2 \in 1..Len(controllers.exports) :
       e1 # e2 => controllers.exports[e1].registry
                    # controllers.exports[e2].registry
  /\ \A e \in 1..Len(controllers.exports) :
       /\ controllers.exports[e].registry # controllers.handlerRegistry
       /\ InstancesOf(RegistryOf(controllers, e))
            \subseteq {controllers.exports[e].instance}
  /\ controllers.handlerRegistry # 0 =>
       InstancesOf(controllers.objects[controllers.handlerRegistry])
         \subseteq {0}

\* C27, in every step: exporting the class for an instance makes a new
\* registry and leaves every other registry, the one of the class included,
\* and every instance as they were; use and useFilters on an export change
\* that export only; a handler called through an export changes the fields
\* of the instance of that export only and never throws for want of a this
C27_ExportsStayApart ==
  [][ controllers'.steps # controllers.steps =>
        LET op == controllers'.last.op
            e == controllers'.last.export
        IN  /\ OthersUnchanged(e)
            /\ op = "getControllerHandler" =>
                 /\ controllers'.exports[e].registry > Len(controllers.objects)
                 /\ \A i \in 1..Len(controllers.instances) :
                      controllers'.instances[i] = controllers.instances[i]
            /\ op \in {"use", "useFilters"} =>
                 controllers'.instances = controllers.instances
            /\ op = "invoke" =>
                 /\ ~controllers'.last.thrown
                 /\ controllers'.objects = controllers.objects
                 /\ \A i \in 1..Len(controllers.instances) :
                      i # controllers.exports[e].instance =>
                        controllers'.instances[i] = controllers.instances[i] ]_vars

\* C27: both parts
C27_ExportsIndependent ==
  []C27_ExportsAreApart /\ C27_ExportsStayApart

\* two exports of the class for two instances, a handler called through the
\* second and middleware added to it
C27_Witness ==
  /\ Len(controllers.exports) = 2
  /\ controllers.exports[1].instance = 1
  /\ controllers.exports[2].instance = 2
  /\ controllers.instances[1].count = 0
  /\ controllers.instances[2].count = 1
  /\ RegistryOf(controllers, 2).globalMiddleware = <<"guard">>
  /\ RegistryOf(controllers, 1).globalMiddleware = <<>>
  /\ RegistryOf(controllers, 1).requestHandlers # << >>

\* ---------------------------------------------------------------------
\* The transport: listen and shutdown
\* ---------------------------------------------------------------------

SHUTDOWN_TIMEOUT_MS ==
  5000

\* the step of the clock, and the shutdown signals delivered at most
TickMs ==
  2500

MaxSignals ==
  2

\* listen(port) has bound the listener and installed the signal handlers;
\* no peer has connected
ShutdownInit ==
  /\ peer = NoPeers
  /\ Registered
  /\ NoSessions
  /\ reader = NoReader
  /\ codec = NoCodec
  /\ chain = NoChain
  /\ lastCall = NoCall
  /\ controllers = NoControllers
  /\ transport = [NoTransport EXCEPT
                    !.status = "listening",
                    !.listener = "open",
                    !.accepting = TRUE,
                    !.conn = [c \in Conns |-> "none"],
                    !.session = [c \in Conns |-> "none"],
                    !.token = [c \in Conns |-> FALSE],
                    !.inflight = [c \in Conns |-> "no"]]

\* a peer connects and the listener accepts: the connection is the next
\* value of the iterator of the listener
PeerConnects(c) ==
  /\ transport.status \in {"listening", "shutting"}
  /\ transport.listener = "open"
  /\ transport.conn[c] = "none"
  /\ transport' = [transport EXCEPT !.conn[c] = "accepted", !.last = "connect"]
  /\ UNCHANGED <<registry, server, reader, codec, chain, lastCall, controllers, peer>>

\* the loop of listen() that takes every accepted connection as a session
listen_Unguarded(c) ==
  /\ transport.status \in {"listening", "shutting"}
  /\ transport.accepting
  /\ transport.conn[c] = "accepted"
  /\ transport' = [transport EXCEPT
                     !.conn[c] = "open",
                     !.activeConnections = @ \cup {c},
                     !.session[c] = "read",
                     !.last = "listen"]
  /\ UNCHANGED <<registry, server, reader, codec, chain, lastCall, controllers, peer>>

\* the body of the loop of listen() for an accepted connection: the loop
\* breaks when the signal of the transport is aborted, and otherwise the
\* connection joins activeConnections and handleConnection starts its
\* session, which waits for a frame
listen(c) ==
  /\ transport.status \in {"listening", "shutting"}
  /\ transport.accepting
  /\ transport.conn[c] = "accepted"
  /\ transport' = IF transport.aborted
                  THEN [transport EXCEPT !.accepting = FALSE,
                                         !.listener = "closed",
                                         !.conn[c] = "dropped",
                                         !.last = "listen"]
                  ELSE [transport EXCEPT
                          !.conn[c] = "open",
                          !.activeConnections = @ \cup {c},
                          !.session[c] = "read",
                          !.last = "listen"]
  /\ UNCHANGED <<registry, server, reader, codec, chain, lastCall, controllers, peer>>

\* processMessages reads a request and handleRequest awaits its handler
RequestArrives(c) ==
  /\ transport.status \in {"listening", "shutting"}
  /\ transport.session[c] = "read"
  /\ transport.conn[c] = "open"
  /\ ~transport.token[c]
  /\ transport' = [transport EXCEPT !.session[c] = "handler",
                                    !.last = "request"]
  /\ UNCHANGED <<registry, server, reader, codec, chain, lastCall, controllers, peer>>

\* cleanupConnection and the finally of the promise listen() holds
SessionEnds(t, c) ==
  [t EXCEPT !.token[c] = TRUE, !.conn[c] = "closed",
            !.session[c] = "done",
            !.activeConnections = @ \ {c},
            !.inflight[c] = IF @ = "running" THEN "lost" ELSE @]

\* the handler of the request settles. handleRequest returns without a
\* reply when the token of the session has fired, and the loop ends; else
\* sendReply writes the reply: on an open connection the write resolves (it
\* takes less time than any timer here) and the session reads on, on a
\* closed one it rejects and the session ends
HandlerCompletes(c) ==
  /\ transport.status \in {"listening", "shutting"}
  /\ transport.session[c] = "handler"
  /\ transport' =
       IF transport.token[c] \/ transport.conn[c] # "open"
       THEN [SessionEnds(transport, c) EXCEPT !.last = "handler"]
       ELSE [transport EXCEPT
               !.session[c] = "read",
               !.inflight[c] = IF @ = "running" THEN "replied" ELSE @,
               !.last = "reply"]
  /\ UNCHANGED <<registry, server, reader, codec, chain, lastCall, controllers, peer>>

\* reader.next() returns null (the peer has closed) or rejects (the
\* connection was closed under the session): the session ends
ReadEnds(c) ==
  /\ transport.status \in {"listening", "shutting"}
  /\ transport.session[c] = "read"
  /\ transport' = [SessionEnds(transport, c) EXCEPT !.last = "read"]
  /\ UNCHANGED <<registry, server, reader, codec, chain, lastCall, controllers, peer>>

\* a shutdown that fires the tokens of the sessions as well
shutdown_CancelsSessions(t) ==
  LET t1 == [t EXCEPT !.aborted = TRUE, !.listener = "closed",
                      !.runs = @ + 1,
                      !.token = [c \in Conns |->
                                   @[c] \/ c \in t.activeConnections],
                      !.inflight = [c \in Conns |->
                                      IF t.session[c] = "handler"
                                      THEN "running" ELSE @[c]]]
  IN  IF t1.activeConnections # {}
      THEN [t1 EXCEPT !.status = "shutting", !.shutdownTimer = "armed",
                      !.elapsed = 0]
      ELSE [t1 EXCEPT !.status = "exited", !.shutdownTimer = "cleared"]

\* shutdown(server) up to its await: the signal of the transport is
\* aborted, the listener closed, the force-close timer set; with no active
\* connection it clears the timer and exits at once. The requests whose
\* handler is running at this point are noted
shutdown(t) ==
  LET t1 == [t EXCEPT !.aborted = TRUE, !.listener = "closed",
                      !.runs = @ + 1,
                      !.inflight = [c \in Conns |->
                                      IF t.session[c] = "handler"
                                      THEN "running" ELSE @[c]]]
  IN  IF t1.activeConnections # {}
      THEN [t1 EXCEPT !.status = "shutting", !.shutdownTimer = "armed",
                      !.elapsed = 0]
      ELSE [t1 EXCEPT !.status = "exited", !.shutdownTimer = "cleared"]

\* a handler of the shutdown signals that does not look at isShuttingDown
handleShutdown_Unguarded ==
  /\ transport.status \in {"listening", "shutting"}
  /\ transport.signals < MaxSignals
  /\ transport' = [shutdown([transport EXCEPT !.isShuttingDown = TRUE,
                                              !.signals = @ + 1])
                     EXCEPT !.last = "signal"]
  /\ UNCHANGED <<registry, server, reader, codec, chain, lastCall, controllers, peer>>

\* handleShutdown: SIGINT or SIGTERM is delivered
handleShutdown ==
  /\ transport.status \in {"listening", "shutting"}
  /\ transport.signals < MaxSignals
  /\ transport' =
       IF transport.isShuttingDown
       THEN [transport EXCEPT !.signals = @ + 1, !.last = "signal"]
       ELSE [shutdown([transport EXCEPT !.isShuttingDown = TRUE,
                                        !.signals = @ + 1])
               EXCEPT !.last = "signal"]
  /\ UNCHANGED <<registry, server, reader, codec, chain, lastCall, controllers, peer>>

\* time passes while shutdown waits, up to the moment its timers are due
Tick ==
  /\ transport.status = "shutting"
  /\ transport.elapsed < SHUTDOWN_TIMEOUT_MS
  /\ transport' = [transport EXCEPT
                     !.elapsed = IF @ + TickMs < SHUTDOWN_TIMEOUT_MS
                                 THEN @ + TickMs ELSE SHUTDOWN_TIMEOUT_MS,
                     !.last = "tick"]
  /\ UNCHANGED <<registry, server, reader, codec, chain, lastCall, controllers, peer>>

\* a force-close timer that closes nothing
ForceClose_Nothing(t) ==
  t

\* the callback of shutdownTimer: conn.close() on every active connection
ForceClose(t) ==
  [t EXCEPT !.conn = [c \in Conns |->
                        IF c \in t.activeConnections THEN "closed" ELSE @[c]]]

\* shutdownTimer is due: it was set before the timers of the wait, with the
\* same delay, and fires before them
shutdownTimerFires ==
  /\ transport.status = "shutting"
  /\ transport.shutdownTimer = "armed"
  /\ transport.elapsed = SHUTDOWN_TIMEOUT_MS
  /\ transport' = [ForceClose(transport) EXCEPT !.shutdownTimer = "fired",
                                                !.last = "timer"]
  /\ UNCHANGED <<registry, server, reader, codec, chain, lastCall, controllers, peer>>

\* the timers of the wait are due: shutdown clears shutdownTimer and calls
\* Deno.exit(0)
shutdownCompletes ==
  /\ transport.status = "shutting"
  /\ transport.shutdownTimer = "fired"
  /\ transport.elapsed = SHUTDOWN_TIMEOUT_MS
  /\ transport' = [transport EXCEPT !.status = "exited", !.last = "exit"]
  /\ UNCHANGED <<registry, server, reader, codec, chain, lastCall, controllers, peer>>

ShutdownNext ==
  \/ \E c \in Conns : PeerConnects(c)
  \/ \E c \in Conns : listen(c)
  \/ \E c \in Conns : RequestArrives(c)
  \/ \E c \in Conns : HandlerCompletes(c)
  \/ \E c \in Conns : ReadEnds(c)
  \/ handleShutdown
  \/ Tick
  \/ shutdownTimerFires
  \/ shutdownCompletes

ShutdownSpec ==
  ShutdownInit /\ [][ShutdownNext]_vars

\* time does not stop, and the event loop runs the timers that are due
ShutdownLiveSpec ==
  /\ ShutdownSpec
  /\ WF_vars(Tick)
  /\ WF_vars(shutdownTimerFires)
  /\ WF_vars(shutdownCompletes)

\* shutdown has been called
ShutdownStarted ==
  transport.runs > 0

\* C23, in every state: once shutdown is called the signal of the transport
\* is aborted and the listener closed; the wait lasts SHUTDOWN_TIMEOUT_MS
\* at most; and when shutdown has completed, every connection still in
\* activeConnections has been closed
C23_ShutdownSteps ==
  /\ ShutdownStarted => transport.aborted /\ transport.listener = "closed"
  /\ transport.elapsed <= SHUTDOWN_TIMEOUT_MS
  /\ transport.status = "exited" =>
       \A c \in transport.activeConnections : transport.conn[c] = "closed"

\* C23: the steps of shutdown, and shutdown completes once it is called
C23_ShutdownBounded ==
  /\ []C23_ShutdownSteps
  /\ (ShutdownStarted ~> transport.status = "exited")

\* shutdown has completed after the full wait, and a session that was
\* reading and one whose handler was running were closed by the timer
C23_Witness ==
  /\ transport.status = "exited"
  /\ transport.elapsed = SHUTDOWN_TIMEOUT_MS
  /\ transport.shutdownTimer = "fired"
  /\ \E c \in transport.activeConnections :
       transport.session[c] = "read" /\ transport.conn[c] = "closed"
  /\ \E c \in transport.activeConnections :
       transport.session[c] = "handler" /\ transport.conn[c] = "closed"

\* C24: once shutdown has been called no connection joins activeConnections
\* and no session starts
C24_NoSessionAfterShutdown ==
  [][ ShutdownStarted =>
        /\ transport'.activeConnections \subseteq transport.activeConnections
        /\ \A c \in Conns :
             transport.session[c] = "none" => transport'.session[c] = "none"
    ]_vars

\* a connection the listener had accepted when shutdown was called was
\* dropped by the loop of listen(), while another has its session
C24_Witness ==
  /\ ShutdownStarted
  /\ \E c \in Conns :
       /\ transport.conn[c] = "dropped"
       /\ transport.session[c] = "none"
       /\ c \notin transport.activeConnections
  /\ transport.activeConnections # {}

C26_ShutdownRunsOnce ==
  transport.runs <= 1

\* C26: shutdown is called once at most, and a shutdown signal delivered
\* while isShuttingDown is set changes nothing
C26_ShutdownIdempotent ==
  /\ []C26_ShutdownRunsOnce
  /\ [][ (transport.isShuttingDown /\ transport'.signals # transport.signals)
           => transport' = [transport EXCEPT !.signals = @ + 1,
                                             !.last = "signal"] ]_vars

\* a second signal was delivered while shutdown was waiting
C26_Witness ==
  /\ transport.status = "shutting"
  /\ transport.signals = 2
  /\ transport.runs = 1
  /\ transport.last = "signal"
  /\ transport.shutdownTimer = "armed"

\* C30: once the signal of the transport is aborted, the token of every
\* active session has fired
C30_ShutdownCancelsSessions ==
  transport.aborted =>
    \A c \in transport.activeConnections : transport.token[c]

\* ---------------------------------------------------------------------
\* Tracing
\* ---------------------------------------------------------------------

\* a traceparent of the W3C form the server accepts
WellFormed(traceparent) ==
  /\ traceparent.t = "string"
  /\ LET parts == Split(traceparent.s, 45)
     IN  /\ Len(parts) >= 4
         /\ parts[1] = <<48, 48>>
         /\ IsHex(parts[2], 32)
         /\ IsHex(parts[3], 16)

\* executeWithTracing has started the span of the dispatch
Dispatching ==
  chain.status \in {"running", "returning", "settled", "failed"}

\* C28: a message whose data carries a traceparent that is not well formed
\* is dispatched like one without: no error comes of it, its span starts a
\* trace of its own, and when the chain is run through the handler is
\* called and its outcome is the result
C28_MalformedTraceparentIgnored ==
  LET data == Field(chain.msg, S_data)
  IN  ( /\ Dispatching
        /\ HasField(data, S_traceparent)
        /\ ~WellFormed(TraceParentIn(data)) )
        => /\ chain.status # "failed"
           /\ chain.span = Span(NewTraceId, NewSpanId)
           /\ ( /\ chain.status = "settled"
                /\ EveryMiddlewareCallsNext
                /\ ~chain.aborted )
                => /\ HandlerCalls = 1
                   /\ chain.result \in HandlerOutcomes(chain.handler)

\* C29: the data handed to the chain is the data of the message when that
\* is no mapping; of a mapping it keeps every key but traceparent, in
\* place, and has traceparent set to that of the span of the dispatch
C29_InjectionOnlyIntoMappings ==
  LET data == Field(chain.msg, S_data)
  IN  chain.status \in {"running", "returning", "settled"} =>
        IF data.t = "object"
        THEN /\ chain.data.t = "object"
             /\ Field(chain.data, S_traceparent)
                  = Str(TraceParentOf(chain.span))
             /\ \A i \in 1..Len(data.m) :
                  data.m[i][1] # S_traceparent =>
                    /\ i <= Len(chain.data.m)
                    /\ chain.data.m[i] = data.m[i]
             /\ Len(chain.data.m) =
                  IF HasField(data, S_traceparent) THEN Len(data.m)
                  ELSE Len(data.m) + 1
        ELSE chain.data = data

\* ---------------------------------------------------------------------
\* Sessions whose client closes its stream at any moment. Nothing tells a
\* session of it: the session learns that the stream has ended when a
\* reader.read() of its own resolves with done
\* ---------------------------------------------------------------------

\* the client of c closes its stream
PeerCloses(c) ==
  /\ pc[c] \notin {"idle", "closed"}
  /\ ~peer[c].closed
  /\ peer' = [peer EXCEPT ![c] =
                [closed |-> TRUE,
                 during |-> IF pc[c] = "dispatch" THEN cur[c].ord ELSE 0]]
  /\ UNCHANGED <<registry, server, reader, codec, chain, lastCall,
                 controllers, transport>>

\* reader.read() resolves with a chunk the client sent before it closed
ChunkArrives(c, chunk) ==
  /\ ~peer[c].closed
  /\ Deliver(c, chunk)

\* reader.read() resolves with done once the client has closed its stream
StreamEnds(c) ==
  /\ peer[c].closed
  /\ PeerClose(c)

CloseNext ==
  \E c \in Conns :
    \/ Accept(c)
    \/ \E chunk \in Chunks : ChunkArrives(c, chunk)
    \/ PeerCloses(c)
    \/ StreamEnds(c)
    \/ Loop(c)
    \/ \E o \in HandlerOutcomes(cur[c].handler) : HandlerSettles(c, o)
    \/ MiddlewareSettles(c)
    \/ TimeoutExpires(c)
    \/ WriteResolves(c)
    \/ WriteBrokenPipe(c)
    \/ WriteFails(c)
    \/ \E ev \in events[c] : \E o \in EventOutcomes(ev) : EventSettles(c, ev, o)
    \/ \E k \in zombies[c] : ZombieSettles(c, k)

CloseSpec ==
  Init /\ [][CloseNext]_vars

\* the request the session of c is dispatching is the one its client closed
\* the stream during
ClosedDuringDispatch(c) ==
  /\ pc[c] = "dispatch"
  /\ peer[c].closed
  /\ peer[c].during = cur[c].ord

\* C31: a dispatch during which the client closed the stream ends with the
\* session token fired, by no result, error or timeout of its own, with no
\* reply handed to the writer, and with the session leaving its loop
C31_PeerCloseAbandonsDispatch ==
  [][\A c \in Conns :
       (ClosedDuringDispatch(c) /\ pc'[c] # "dispatch") =>
         /\ aborted'[c]
         /\ cur'[c].outcome = NoOutcome
         /\ pc'[c] \in {"loop", "closed"}
         /\ nsent'[c] = nsent[c]]_vars

\* ---------------------------------------------------------------------
\* Cancellation of a session
\* ---------------------------------------------------------------------

\* C32: once the token of a session has fired, no frame is written on its
\* connection, no reply is handed to the writer, and the loop decodes and
\* dispatches no further message
C32_NoReplyAfterCancellation ==
  [][\A c \in Conns :
       aborted[c] =>
         /\ nsent'[c] = nsent[c]
         /\ pc'[c] \notin {"write", "dispatch"}
         /\ ndecoded'[c] = ndecoded[c]
         /\ nrequests'[c] = nrequests[c]
         /\ events'[c] \subseteq events[c]]_vars

\* the token of a session was fired by a broken pipe: its request has no
\* reply on the connection and the loop is about to look at the token
C32_Witness ==
  \E c \in Conns :
    /\ aborted[c]
    /\ pc[c] = "loop"
    /\ cur[c].disp = "request"
    /\ ~cur[c].written
    /\ nsent[c] < nrequests[c]

\* C33: a write of a reply that puts no frame on the connection leaves the
\* session token fired, and either sendReply returns to the loop with no
\* connection error logged (BrokenPipe) or the error has left the loop and
\* the connection is closed and forgotten (any other error); a loop that
\* finds the token fired exits: the connection is closed and forgotten and
\* no connection error is logged
C33_WriteErrorsEndSession ==
  [][\A c \in Conns :
       /\ (pc[c] = "write" /\ pc'[c] # "write" /\ nsent'[c] = nsent[c]) =>
            /\ aborted'[c]
            /\ \/ /\ pc'[c] = "loop"
                  /\ connError'[c] = connError[c]
                  /\ c \in activeConnections'
               \/ /\ pc'[c] = "closed"
                  /\ c \notin activeConnections'
       /\ (pc[c] = "loop" /\ aborted[c] /\ pc'[c] # "loop") =>
            /\ pc'[c] = "closed"
            /\ c \notin activeConnections'
            /\ connError'[c] = connError[c]]_vars

\* a session is over whose request has no reply on the connection and of
\* which no connection error was logged: the write of its reply met a
\* broken pipe
C33_Witness ==
  \E c \in Conns :
    /\ Closed(c)
    /\ connError[c] = "none"
    /\ nsent[c] < nrequests[c]

\* ---------------------------------------------------------------------
\* The size of the buffer of a frame reader. The buffer is represented by
\* its length and by the payload length its first 4 bytes announce, so that
\* buffers of megabytes can be followed: the stream hands over chunks of a
\* few bytes or of ChunkBytes bytes, and the peer announces what it likes
\* ---------------------------------------------------------------------

\* reads of the stream one reader makes
MaxReads ==
  4

\* the bytes of a large chunk: 6 MiB
ChunkBytes ==
  6291456

ChunkSizes ==
  {3, 4, ChunkBytes}

\* the payload lengths a peer announces in a header
FrameLengths ==
  {0, 3, MAX_MESSAGE_SIZE, MAX_MESSAGE_SIZE + 1, 1024 * 1024 * 1024}

\* one pass of the loop of StreamReader.next on a buffer of size bytes that
\* starts with the header of a frame of length bytes
StreamReader_pass(size, length) ==
  IF size > MAX_BUFFER_SIZE THEN [kind |-> "BufferOverflow", size |-> size]
  ELSE IF size < 4 THEN [kind |-> "read", size |-> size]
  ELSE IF length > MAX_MESSAGE_SIZE
  THEN [kind |-> "InvalidLength", size |-> size]
  ELSE IF size >= 4 + length THEN [kind |-> "msg", size |-> size - (4 + length)]
  ELSE [kind |-> "readPayload", size |-> size]

\* one pass of the loop of FrameReader.next on such a buffer
FrameReader_pass(size, length) ==
  IF size < 4 THEN [kind |-> "read", size |-> size]
  ELSE IF size >= 4 + length THEN [kind |-> "msg", size |-> size - (4 + length)]
  ELSE [kind |-> "read", size |-> size]

\* next() goes on with a buffer of size bytes until it returns, throws or
\* has to await the stream; when it returns a payload the buffer starts
\* with the next frame, of which the peer announces the length next
BufferRuns(size, next) ==
  LET r == IF reader.kind = "StreamReader"
           THEN StreamReader_pass(size, reader.length)
           ELSE FrameReader_pass(size, reader.length)
  IN  reader' = [reader EXCEPT
                   !.size = r.size,
                   !.length = IF r.kind = "msg" THEN next ELSE @,
                   !.returned = IF r.kind = "msg" THEN @ + 1 ELSE @,
                   !.status = IF r.kind = "msg" THEN "idle" ELSE r.kind]

\* the caller calls next(), until MaxFrames payloads were returned
BufferCall(next) ==
  /\ reader.status = "idle"
  /\ reader.returned < MaxFrames
  /\ BufferRuns(reader.size, next)
  /\ UNCHANGED <<registry, server, aside, codec, chain, lastCall>>

\* reader.read() resolves with a chunk of n bytes, which concat appends
BufferChunk(n, next) ==
  /\ reader.status \in {"read", "readPayload"}
  /\ reader.reads < MaxReads
  /\ LET grown == [reader EXCEPT !.size = @ + n, !.reads = @ + 1]
     IN  \E r \in {IF grown.kind = "StreamReader"
                   THEN StreamReader_pass(grown.size, grown.length)
                   ELSE FrameReader_pass(grown.size, grown.length)} :
           reader' = [grown EXCEPT
                        !.size = r.size,
                        !.held = IF grown.size > @ THEN grown.size ELSE @,
                        !.length = IF r.kind = "msg" THEN next ELSE @,
                        !.returned = IF r.kind = "msg" THEN @ + 1 ELSE @,
                        !.status = IF r.kind = "msg" THEN "idle" ELSE r.kind]
  /\ UNCHANGED <<registry, server, aside, codec, chain, lastCall>>

\* a reader of either class with an empty buffer; held is the largest
\* length its buffer had
BufferInit ==
  /\ peer = NoPeers
  /\ Registered
  /\ NoSessions
  /\ codec = NoCodec
  /\ chain = NoChain
  /\ lastCall = NoCall
  /\ controllers = NoControllers
  /\ transport = NoTransport
  /\ \E kind \in {"FrameReader", "StreamReader"}, length \in FrameLengths :
       reader = [kind |-> kind, size |-> 0, held |-> 0, length |-> length,
                 reads |-> 0, returned |-> 0, status |-> "idle"]

BufferNext ==
  \E next \in FrameLengths :
    \/ BufferCall(next)
    \/ \E n \in ChunkSizes : BufferChunk(n, next)

BufferSpec ==
  BufferInit /\ [][BufferNext]_vars

\* C34: the buffer of a frame reader never holds more than MAX_BUFFER_SIZE
\* bytes: a chunk that would make it longer is not appended, next() fails
C34_BufferBounded ==
  /\ reader.size <= MAX_BUFFER_SIZE
  /\ reader.held <= MAX_BUFFER_SIZE

\* the calls of startSpan, or of end, among the calls logged
RECURSIVE Calls(_, _)
Calls(log, name) ==
  IF log = <<>> THEN 0
  ELSE (IF Head(log) = name THEN 1 ELSE 0) + Calls(Tail(log), name)

\* the dispatch is over: its race has settled, or startRpcSpan threw
DispatchOver ==
  chain.race # NoOutcome \/ chain.status = "failed"

\* C35: a dispatch starts exactly one span and never ends it twice; when
\* the dispatch is over, whatever its outcome, the span was given the
\* outcome success (a result) or error (an error, a timeout, a
\* cancellation), in the second case after the exception was recorded, and
\* was ended last
C35_SpanStartedAndEndedOnce ==
  /\ chain.status \notin {"none", "called"} =>
       Calls(chain.spanLog, "startSpan") = 1
  /\ Calls(chain.spanLog, "end") <= 1
  /\ DispatchOver =>
       chain.spanLog =
         IF chain.race.kind = "return"
         THEN <<"startSpan", "rpc.result=success", "end">>
         ELSE <<"startSpan", "recordException", "rpc.result=error", "end">>

\* ---------------------------------------------------------------------
\* Detached events
\* ---------------------------------------------------------------------

\* C36: the step that dispatches an event leaves the session at the head
\* of its loop, free to read and dispatch the next message, with the event
\* pending unless a middleware settled it at once; and no step of a session
\* (a read, a dispatch, a reply) settles or awaits a pending event, except
\* the steps that fire the session token, which cancels them all
C36_EventsDetached ==
  [][\A c \in Conns :
       /\ (ndecoded'[c] # ndecoded[c] /\ cur'[c].disp = "event") =>
            /\ pc'[c] = "loop"
            /\ nsent'[c] = nsent[c]
            /\ events[c] \subseteq events'[c]
            /\ \A ev \in events'[c] \ events[c] : ev.ord = cur'[c].ord
       /\ (pc'[c] # pc[c] /\ ~aborted'[c]) =>
            events[c] \subseteq events'[c]]_vars

\* the reply to a request is on the connection while the handler of an
\* event that came before the request is still pending
C36_Witness ==
  \E c \in Conns :
    /\ Replied(c)
    /\ cur[c].disp = "request"
    /\ \E ev \in events[c] : ev.ord < cur[c].ord

\* ---------------------------------------------------------------------
\* Termination of sessions. The steps of the runtime are taken when they
\* can be: a read of an ended stream resolves, the loop goes on, a settled
\* chain is passed on, a write resolves or rejects, and a pending dispatch
\* is ended by its handler or else by its timer. Nothing is assumed of the
\* clients, of the handlers that return promises, or of detached events
\* ---------------------------------------------------------------------

\* the dispatch of the request of c ends: its handler settles, or its timer
\* fires
DispatchEnds(c) ==
  \/ \E o \in HandlerOutcomes(cur[c].handler) : HandlerSettles(c, o)
  \/ TimeoutExpires(c)

\* the write of the reply of c resolves or rejects
WriteEnds(c) ==
  \/ WriteResolves(c)
  \/ WriteBrokenPipe(c)
  \/ WriteFails(c)

CloseLiveSpec ==
  /\ CloseSpec
  /\ \A c \in Conns :
       /\ WF_vars(StreamEnds(c))
       /\ WF_vars(Loop(c))
       /\ WF_vars(MiddlewareSettles(c))
       /\ WF_vars(DispatchEnds(c))
       /\ WF_vars(WriteEnds(c))

\* C37: the active-sessions set holds no connection whose session is over,
\* and a session whose client has closed its stream, or that met a framing
\* error, a decoding error or a write error, comes to its end: token fired,
\* connection closed and out of the set
C37_SessionsTerminate ==
  /\ [](\A c \in Conns : pc[c] = "closed" => c \notin activeConnections)
  /\ \A c \in Conns :
       (peer[c].closed \/ FramingError(c) \/ connError[c] # "none")
         ~> Closed(c)

\* ---------------------------------------------------------------------
\* Namespaces of the registry
\* ---------------------------------------------------------------------

\* what handleMessage looks up for a message: the handler by pattern and
\* pattern type, the middleware by pattern
Lookup(pattern, patternType) ==
  [handler |-> getHandler(pattern, patternType),
   middleware |-> getMiddleware(pattern)]

\* the handler a map has for a pattern
HandlerIn(map, pattern) ==
  IF pattern \in DOMAIN map THEN map[pattern] ELSE "none"

\* C38: for every pattern, a request and an event are handed the same
\* middleware, the global one followed by the list of the last
\* useFilters on the pattern, while their handlers come from two maps:
\* messagePattern changes the handler of no event, eventPattern the handler
\* of no request
C38_FiltersByPatternHandlersByType ==
  /\ [](\A p \in Patterns :
          LET rq == Lookup(Str(p), Num(MESSAGE_PATTERN_REQUEST))
              ev == Lookup(Str(p), Num(MESSAGE_PATTERN_EVENT))
          IN  /\ rq.middleware = ev.middleware
              /\ rq.middleware = lastCall.used \o Filters(p)
              /\ rq.handler = HandlerIn(requestHandlers, p)
              /\ ev.handler = HandlerIn(eventHandlers, p))
  /\ [][lastCall'.calls # lastCall.calls =>
          /\ lastCall'.name = "messagePattern" =>
               /\ HandlerIn(requestHandlers', lastCall'.pattern)
                    = lastCall'.handler
               /\ \A p \in Patterns :
                    HandlerIn(eventHandlers', p) = HandlerIn(eventHandlers, p)
          /\ lastCall'.name = "eventPattern" =>
               /\ HandlerIn(eventHandlers', lastCall'.pattern)
                    = lastCall'.handler
               /\ \A p \in Patterns :
                    HandlerIn(requestHandlers', p)
                      = HandlerIn(requestHandlers, p)]_vars

\* a request handler and an event handler are registered under one
\* pattern, and the middleware of useFilters on it is handed to both
C38_Witness ==
  LET rq == Lookup(Str(P_add), Num(MESSAGE_PATTERN_REQUEST))
      ev == Lookup(Str(P_add), Num(MESSAGE_PATTERN_EVENT))
  IN  /\ rq.handler = "add"
      /\ ev.handler = "onEvt"
      /\ Filters(P_add) = <<"guard">>
      /\ rq.middleware = <<"guard">>
      /\ ev.middleware = <<"guard">>

\* ---------------------------------------------------------------------
\* The declaration of a controller class on its own: up to MaxDeclared
\* method decorators run, in the order the class is evaluated (method by
\* method, on each method bottom to top), then @Controller. Patterns are
\* non-empty strings, so that a currentPattern that is set is truthy
\* ---------------------------------------------------------------------

MaxDeclared ==
  3

DeclaredFilters ==
  {<<"guard">>, <<"LoggingMiddleware">>}

DeclarationNext ==
  \/ /\ controllers.decorators < MaxDeclared
     /\ \E pattern \in Patterns : MessagePattern(pattern, "count")
  \/ /\ controllers.decorators < MaxDeclared
     /\ \E pattern \in Patterns : EventPattern(pattern, "count")
  \/ /\ controllers.decorators < MaxDeclared
     /\ \E mw \in DeclaredFilters : UseFilters(mw)
  \/ Controller

DeclarationSpec ==
  ControllerInit /\ [][DeclarationNext]_vars

\* the registry of the class, empty as long as no decorator has asked for it
ClassRegistry(ctl) ==
  IF ctl.handlerRegistry = 0 THEN NoRegistry
  ELSE ctl.objects[ctl.handlerRegistry]

\* a pattern decorator has run on the class
PatternRegistered(ctl) ==
  \/ ClassRegistry(ctl).requestHandlers # << >>
  \/ ClassRegistry(ctl).eventHandlers # << >>

\* the decorator that ran in this step is a pattern decorator: its pattern
\* is registered and is the currentPattern, and no middleware list changed
PatternDecoratorRan ==
  LET was == ClassRegistry(controllers)
      now == ClassRegistry(controllers')
  IN  /\ controllers'.last.op = "MessagePattern" =>
           /\ controllers'.currentPattern \in DOMAIN now.requestHandlers
           /\ now.handlerMiddleware = was.handlerMiddleware
      /\ controllers'.last.op = "EventPattern" =>
           /\ controllers'.currentPattern \in DOMAIN now.eventHandlers
           /\ now.handlerMiddleware = was.handlerMiddleware

\* the decorator that ran in this step is @UseFilters and changed nothing
\* but the middleware lists; attached tells whether it made its list the
\* list of the currentPattern, or changed nothing at all
UseFiltersRan(attached) ==
  LET was == ClassRegistry(controllers)
      now == ClassRegistry(controllers')
  IN  /\ controllers'.currentPattern = controllers.currentPattern
      /\ now.requestHandlers = was.requestHandlers
      /\ now.eventHandlers = was.eventHandlers
      /\ now.globalMiddleware = was.globalMiddleware
      /\ IF attached
         THEN \E mw \in DeclaredFilters :
                now.handlerMiddleware =
                  MapSet(was.handlerMiddleware, controllers.currentPattern, mw)
         ELSE now.handlerMiddleware = was.handlerMiddleware

\* C39: the registry of the class has a currentPattern exactly when a
\* pattern decorator has run, and a pattern decorator makes its pattern the
\* currentPattern; @UseFilters(mw) changes nothing when no pattern
\* decorator has run before it, and otherwise makes mw the middleware list
\* of the currentPattern, whatever list it had and whichever method the
\* decorator stands on
C39_UseFiltersOnCurrentPattern ==
  /\ [](controllers.currentPattern # <<>> <=> PatternRegistered(controllers))
  /\ [][controllers'.decorators # controllers.decorators =>
          /\ PatternDecoratorRan
          /\ controllers'.last.op = "UseFilters" =>
               UseFiltersRan(PatternRegistered(controllers))]_vars

\* the pattern of a method declared with @UseFilters("guard") above its
\* pattern decorator has the list of a @UseFilters that ran later, with no
\* pattern decorator run in between
C39_Witness ==
  /\ controllers.last.op = "UseFilters"
  /\ controllers.currentPattern = P_add
  /\ P_add \in DOMAIN controllers.declared
  /\ controllers.declared[P_add] = <<"guard">>
  /\ ClassRegistry(controllers).handlerMiddleware[P_add]
       = <<"LoggingMiddleware">>

====
